---- MODULE Spec2Model ----
(***************************************************************************)
(* Qubee: the hybrid ratchet engine (src/src/crypto/enhanced_ratchet.rs).  *)
(*                                                                         *)
(* Cryptographic values are symbolic terms: a hash, a KDF output, a DH     *)
(* point, an AEAD ciphertext is the record of what it was computed from,   *)
(* so two values are equal exactly when they were computed the same way    *)
(* (no collisions, no forgeries).  Values drawn from the operating         *)
(* system's random generator are fresh: the n-th draw of a session is the  *)
(* pair <<session, n>>, which no other draw equals.                        *)
(***************************************************************************)
EXTENDS Integers, Sequences, FiniteSets, TLC

VARIABLES
    sess,   \* sess[s]: the fields of the EnhancedHybridRatchet object s
    net,    \* every RatchetMessage an encrypt call has returned so far
    rng,    \* rng[s]: how many key pairs and encapsulations (keys) and how
            \* many nonces session s has drawn from the random generators
    last,   \* the most recent call: its operation, arguments and result
    wiped,  \* the sessions mark_compromised has been called on (history)
    hyb,    \* hyb[s]: the fields of the HybridRatchet object s
    pinned, \* the EphemeralKeyStore: sender id -> pinned key bytes
    wire,   \* every SecureMsg, AudioPacket and FileChunk returned so far
    drawn,  \* how many values the codec paths have drawn at random
    done,   \* the most recent codec call: its operation and result
    xfer,   \* the locals of send_file, of its cover task and of receive_file
    ks,     \* the fields of the SecureKeyStore object
    mem,    \* the SecureAllocator and its live SecureMemoryRegions
    thr     \* the threads inside verify_and_pin_ephemeral_key, and its mutex

\* the ratchet engine, the codec, and the file transfer, key store and
\* allocator
rvars == <<sess, net, rng, last, wiped>>
cvars == <<hyb, pinned, wire, drawn, done>>
xvars == <<xfer, ks, mem, thr>>
vars == <<sess, net, rng, last, wiped, hyb, pinned, wire, drawn, done, xfer,
          ks, mem, thr>>

----------------------------------------------------------------------------
(* Bounds of the model *)

\* key pairs and encapsulations that may be drawn (OsRng, kyber768)
MaxKeys == 3
\* nonces that may be drawn (secure_rng), that is, messages that may be sent
MaxNonces == 4
\* kdf_ck steps a receive chain key may be advanced
MaxChain == 3
\* the same, where two sessions run side by side
MaxKeysPair == 3
MaxNoncesPair == 2
\* stand-in for MAX_SKIP_DEFAULT = 1000 (enhanced_ratchet.rs:84)
MaxSkip == 1
\* stand-in for MAX_CACHE_DEFAULT = 100 (enhanced_ratchet.rs:85)
MaxCache == 1
\* values the codec paths may draw (OsRng, kyber768, dilithium2)
MaxDrawn == 8
\* root key changes of the double_ratchet library that are followed
MaxEpoch == 1
\* stand-in for 2^32, where a u32 counter wraps
CtrWrap == 2
\* values the file transfer may draw, four a chunk
MaxDrawnFile == 12
\* data chunks receive_file may write to the output file
MaxWritten == 2
\* chunks receive_file may drop as dummies
MaxDropped == 2
\* values the key store may draw (master keys and nonces)
MaxDrawnKs == 5
\* SecureMemoryRegions that may be live at once
MaxRegions == 3
\* threads that may call the pinning registry at once
MaxThreads == 3
\* the same limits for the specification of the forward walk, where
\* max_skip > max_cache > 1 as in the code, and its draws and chain steps
MaxSkipWalk == 3
MaxCacheWalk == 2
MaxKeysWalk == 6
MaxNoncesWalk == 5
MaxChainWalk == 4

SharedSecrets == {"ss1"}
Plaintexts == {[t |-> "bytes", b |-> "hello"]}
AssociatedData == {"ad1"}
Timestamps == {1000}

----------------------------------------------------------------------------
(* Option<T> *)

None == [t |-> "None"]
Some(x) == [t |-> "Some", v |-> x]
IsSome(o) == o.t = "Some"

----------------------------------------------------------------------------
(* Primitive layer, symbolically *)

\* [0u8; 32]
ZeroKey == [t |-> "zero"]

\* x25519: a point is the set of the scalars multiplied onto the base point
BasePoint == [t |-> "pt", k |-> {}]
StaticSecret(id) == [t |-> "dhsk", id |-> id]
diffie_hellman(sk, point) == [t |-> "pt", k |-> point.k \cup {sk.id}]
PublicKey(sk) == diffie_hellman(sk, BasePoint)

\* kyber768: a key pair, and encapsulate(pk) -> (ciphertext, shared secret)
PqSecretKey(id) == [t |-> "pqsk", id |-> id]
PqPublicKey(id) == [t |-> "pqpk", id |-> id]
encapsulate(pk, id) == [t |-> "pqss", id |-> id, to |-> pk.id]

\* the long-term key pairs the caller hands to initialize_receiver, whose
\* public halves are what a sender is given as remote keys
PrekeyDh == StaticSecret(<<"prekey", 0>>)
PrekeyPq == PqSecretKey(<<"prekey", 0>>)

\* ChaCha20Poly1305: encrypt(nonce, payload) returns ciphertext || tag as one
\* byte string; decrypt(nonce, bytes) opens exactly what was sealed under the
\* same key and nonce
AeadSeal(key, nonce, aad, payload) ==
    [t |-> "sealed", key |-> key, nonce |-> nonce, aad |-> aad,
     payload |-> payload]
AeadOpen(key, nonce, aad, bytes) ==
    IF bytes.t = "sealed" /\ bytes.key = key /\ bytes.nonce = nonce
       /\ bytes.aad = aad
    THEN Some(bytes.payload)
    ELSE None
\* Aead::encrypt / Aead::decrypt given a plain byte slice: no associated data
NoAad == ""

\* a byte string cut at offset 12: bytes[..12] and bytes[12..].  Only a
\* string built as nonce || sealed splits back into the nonce and the sealed
\* part; the first 12 bytes of a sealed string are encrypted payload bytes.
Concat12(nonce, rest) == [t |-> "cat", head |-> nonce, tail |-> rest]
First12(bytes) ==
    IF bytes.t = "cat" THEN bytes.head ELSE [t |-> "head12", of |-> bytes]
After12(bytes) ==
    IF bytes.t = "cat" THEN bytes.tail ELSE [t |-> "tail12", of |-> bytes]
\* bytes.len() < 12: the sealed payload starts with the 12 nonce bytes
TooShort(bytes) == bytes.t = "short"

----------------------------------------------------------------------------
(* Key derivation *)

\* derive_root_key: blake3(shared_secret || label)
derive_root_key(shared_secret) == [t |-> "rk0", ss |-> shared_secret]

\* combine_shared_secrets: blake3(dh || pq || label)
combine_shared_secrets(dh_secret, pq_secret) ==
    [t |-> "hybrid", dh |-> dh_secret, pq |-> pq_secret]

\* kdf_rk: HKDF(salt = root key, ikm) expanded under two labels
kdf_rk(root_key, ikm) ==
    [root |-> [t |-> "rk", salt |-> root_key, ikm |-> ikm],
     chain |-> [t |-> "ck", salt |-> root_key, ikm |-> ikm, n |-> 0]]

\* (mutation of kdf_ck: the chain key moves two steps)
kdf_ck_twice(chain_key) ==
    [chain |-> [chain_key EXCEPT !.n = @ + 2],
     message |-> [t |-> "mk", salt |-> chain_key.salt, ikm |-> chain_key.ikm,
                  n |-> chain_key.n]]

\* kdf_ck: blake3(ck || chain label), blake3(ck || message label).  A chain
\* key is its origin and the number n of steps taken from it.
kdf_ck(chain_key) ==
    [chain |-> [chain_key EXCEPT !.n = @ + 1],
     message |-> [t |-> "mk", salt |-> chain_key.salt, ikm |-> chain_key.ikm,
                  n |-> chain_key.n]]

\* compute_mac: blake3(root key || header || ciphertext)[..16]
compute_mac(root_key, header, ciphertext) ==
    [t |-> "mac", key |-> root_key, header |-> header, ct |-> ciphertext]

constant_time_eq(a, b) == a = b

----------------------------------------------------------------------------
(* The session object *)

RatchetState ==
    {"Uninitialized", "Initialized", "KeyExchanged", "Active", "Compromised"}

MessageId(n) == [chain_id |-> 0, message_number |-> n]

\* EnhancedHybridRatchet::new
new ==
    [root_key |-> ZeroKey,
     dh_send_key |-> None,
     dh_recv_key |-> None,
     pq_send_key |-> None,
     pq_recv_key |-> None,
     send_chain_key |-> None,
     recv_chain_key |-> None,
     send_counter |-> 0,
     recv_counter |-> 0,
     skipped_keys |-> {},
     max_skip |-> MaxSkip,
     max_cache |-> MaxCache,
     state |-> "Uninitialized"]

\* the k-th next value session s draws: a key (OsRng, kyber768) or a nonce
\* (secure_rng::random::array)
FreshKey(s, k) == <<s, rng[s].keys + k>>
FreshNonce(s) == <<s, rng[s].nonces + 1>>
DrawKeys(s, k) == rng' = [rng EXCEPT ![s].keys = @ + k]
DrawNonce(s) == rng' = [rng EXCEPT ![s].nonces = @ + 1]

\* what a call reports: the error text of the code, or Ok
Ok == "ok"
NoMessage == [t |-> "NoMessage"]
Call(op, s, err, out, message, plaintext, ad) ==
    [op |-> op, who |-> s, err |-> err, out |-> out, message |-> message,
     plaintext |-> plaintext, ad |-> ad]

\* HashMap::insert and HashMap::remove on skipped_keys, a set of (id, key)
MapHas(map, id) == \E e \in map : e.id = id
MapGet(map, id) == (CHOOSE e \in map : e.id = id).key
MapRemove(map, id) == {e \in map : e.id # id}
MapInsert(map, id, key) == MapRemove(map, id) \cup {[id |-> id, key |-> key]}

----------------------------------------------------------------------------
(* initialize_sender, initialize_receiver *)

AlreadyInitialized == "Ratchet already initialized"

initialize_sender(s, shared_secret, remote_dh_key, remote_pq_key) ==
    LET self == sess[s]
        dh_keypair == StaticSecret(FreshKey(s, 1))
        pq_shared_secret == encapsulate(remote_pq_key, FreshKey(s, 2))
        root0 == derive_root_key(shared_secret)
        dh_shared == diffie_hellman(dh_keypair, remote_dh_key)
        combined_secret == combine_shared_secrets(dh_shared, pq_shared_secret)
        out == kdf_rk(root0, combined_secret)
    IN  IF self.state # "Uninitialized"
        THEN /\ last' = Call("initialize_sender", s, AlreadyInitialized, None,
                             NoMessage, None, "")
             /\ UNCHANGED <<sess, net, rng, wiped>>
        ELSE /\ DrawKeys(s, 2)
             /\ sess' = [sess EXCEPT ![s] =
                    [self EXCEPT !.root_key = out.root,
                                 !.send_chain_key = Some(out.chain),
                                 !.dh_send_key = Some(dh_keypair),
                                 !.dh_recv_key = Some(remote_dh_key),
                                 !.pq_recv_key = Some(remote_pq_key),
                                 !.state = "Initialized"]]
             /\ last' = Call("initialize_sender", s, Ok, None, NoMessage, None, "")
             /\ UNCHANGED <<net, wiped>>

\* (mutation of initialize_receiver: the state is not looked at)
initialize_receiver_again(s, shared_secret, dh_keypair, pq_keypair) ==
    /\ sess' = [sess EXCEPT ![s] =
           [sess[s] EXCEPT !.root_key = derive_root_key(shared_secret),
                           !.dh_send_key = Some(dh_keypair),
                           !.pq_send_key = Some(pq_keypair),
                           !.state = "Initialized"]]
    /\ last' = Call("initialize_receiver", s, Ok, None, NoMessage, None, "")
    /\ UNCHANGED <<net, rng, wiped>>

initialize_receiver(s, shared_secret, dh_keypair, pq_keypair) ==
    LET self == sess[s]
    IN  IF self.state # "Uninitialized"
        THEN /\ last' = Call("initialize_receiver", s, AlreadyInitialized, None,
                             NoMessage, None, "")
             /\ UNCHANGED <<sess, net, rng, wiped>>
        ELSE /\ sess' = [sess EXCEPT ![s] =
                    [self EXCEPT !.root_key = derive_root_key(shared_secret),
                                 !.dh_send_key = Some(dh_keypair),
                                 !.pq_send_key = Some(pq_keypair),
                                 !.state = "Initialized"]]
             /\ last' = Call("initialize_receiver", s, Ok, None, NoMessage, None, "")
             /\ UNCHANGED <<net, rng, wiped>>

----------------------------------------------------------------------------
(* encrypt *)

RatchetNotReady == "Ratchet not ready for encryption"
NoSendChain == "No send chain key"

\* is_active, and the guard of encrypt
is_active(self) == self.state \in {"Active", "KeyExchanged"}

MessageHeader(self, now) ==
    [dh_public_key |->
        IF IsSome(self.dh_send_key)
        THEN Some(diffie_hellman(self.dh_send_key.v, BasePoint))
        ELSE None,
     pq_public_key |-> None,
     previous_chain_length |-> 0,
     message_number |-> self.send_counter,
     timestamp |-> now]

Nonce(id) == [t |-> "nonce", id |-> id]
Payload(nonce, plaintext) ==
    [t |-> "payload", nonce |-> nonce, plaintext |-> plaintext]

encrypt(s, plaintext, associated_data, now) ==
    LET self == sess[s]
    IN  IF ~is_active(self)
        THEN /\ last' = Call("encrypt", s, RatchetNotReady, None, NoMessage,
                             plaintext, associated_data)
             /\ UNCHANGED <<sess, net, rng, wiped>>
        ELSE IF ~IsSome(self.send_chain_key)
        THEN /\ last' = Call("encrypt", s, NoSendChain, None, NoMessage,
                             plaintext, associated_data)
             /\ UNCHANGED <<sess, net, rng, wiped>>
        ELSE LET step == kdf_ck(self.send_chain_key.v)
                 header == MessageHeader(self, now)
                 nonce == Nonce(FreshNonce(s))
                 ciphertext == AeadSeal(step.message, nonce, NoAad,
                                        Payload(nonce, plaintext))
                 mac == compute_mac(self.root_key, header, ciphertext)
                 message == [header |-> header, ciphertext |-> ciphertext,
                             mac |-> mac]
             IN  /\ DrawNonce(s)
                 /\ sess' = [sess EXCEPT ![s] =
                        [self EXCEPT !.send_chain_key = Some(step.chain),
                                     !.send_counter = @ + 1]]
                 /\ net' = net \cup {message}
                 /\ last' = Call("encrypt", s, Ok, Some(message), NoMessage,
                                 plaintext, associated_data)
                 /\ UNCHANGED wiped

----------------------------------------------------------------------------
(* decrypt *)

AuthenticationFailed == "MAC verification failed"
ReplayDetected == "Replay attack detected"
NoRecvChain == "No receive chain key"
TooManySkippedMessages == "Too many skipped messages"
CiphertextTooShort == "Ciphertext too short"
DecryptionFailed == "Decryption failed: aead::Error"

\* the MAC check of decrypt
mac_verifies(self, message) ==
    constant_time_eq(message.mac,
        compute_mac(self.root_key, message.header, message.ciphertext))

\* (mutation of is_replay: < for <=)
is_replay_strict(self, message) ==
    message.header.message_number < self.recv_counter

\* the replay check of decrypt
is_replay(self, message) ==
    message.header.message_number <= self.recv_counter

\* message_number.saturating_sub(self.recv_counter + 1)
skip_count(self, message_number) ==
    IF message_number > self.recv_counter + 1
    THEN message_number - (self.recv_counter + 1)
    ELSE 0

\* (mutation of too_many_skipped: the limit off by one)
too_many_skipped_lax(self, message_number) ==
    skip_count(self, message_number) > self.max_skip + 1

\* the skip limit of get_recv_message_key
too_many_skipped(self, message_number) ==
    skip_count(self, message_number) > self.max_skip

\* (mutation of Evictions: nothing is removed from a full cache)
Evictions_none(self, cache) == {cache}

\* one round of the loop of get_recv_message_key: when the cache is full an
\* entry is removed first, the one HashMap::iter yields first, which may be
\* any of them
Evictions(self, cache) ==
    IF Cardinality(cache) >= self.max_cache /\ cache # {}
    THEN {MapRemove(cache, e.id) : e \in cache}
    ELSE {cache}

\* (mutation of SkipWalk: each key is stored under the number before its own)
RECURSIVE SkipWalk_misnumbered(_, _, _, _, _)
SkipWalk_misnumbered(self, cache, chain_key, i, count) ==
    IF i >= count
    THEN {[cache |-> cache, chain_key |-> chain_key]}
    ELSE LET step == kdf_ck(chain_key)
             id == MessageId(self.recv_counter + i)
         IN  UNION {SkipWalk_misnumbered(self, MapInsert(c, id, step.message),
                                         step.chain, i + 1, count)
                    : c \in Evictions(self, cache)}

RECURSIVE SkipWalk(_, _, _, _, _)
SkipWalk(self, cache, chain_key, i, count) ==
    IF i >= count
    THEN {[cache |-> cache, chain_key |-> chain_key]}
    ELSE LET step == kdf_ck(chain_key)
             id == MessageId(self.recv_counter + 1 + i)
         IN  UNION {SkipWalk(self, MapInsert(c, id, step.message), step.chain,
                             i + 1, count) : c \in Evictions(self, cache)}

\* (mutation of get_recv_message_key: the chain step also steps the root key)
get_recv_message_key_rekeying(self, message_number) ==
    IF ~IsSome(self.recv_chain_key)
    THEN {[self |-> self, err |-> NoRecvChain, key |-> None]}
    ELSE IF too_many_skipped(self, message_number)
    THEN {[self |-> self, err |-> TooManySkippedMessages, key |-> None]}
    ELSE {LET step == kdf_ck(w.chain_key)
          IN  [self |-> [self EXCEPT !.skipped_keys = w.cache,
                                     !.recv_chain_key = Some(step.chain),
                                     !.root_key =
                                         kdf_rk(@, step.message).root],
               err |-> Ok, key |-> Some(step.message)]
          : w \in SkipWalk(self, self.skipped_keys, self.recv_chain_key.v, 0,
                           skip_count(self, message_number))}

\* get_recv_message_key: every (session after, error or key) it can return
get_recv_message_key(self, message_number) ==
    IF ~IsSome(self.recv_chain_key)
    THEN {[self |-> self, err |-> NoRecvChain, key |-> None]}
    ELSE IF too_many_skipped(self, message_number)
    THEN {[self |-> self, err |-> TooManySkippedMessages, key |-> None]}
    ELSE {LET step == kdf_ck(w.chain_key)
          IN  [self |-> [self EXCEPT !.skipped_keys = w.cache,
                                     !.recv_chain_key = Some(step.chain)],
               err |-> Ok, key |-> Some(step.message)]
          : w \in SkipWalk(self, self.skipped_keys, self.recv_chain_key.v, 0,
                           skip_count(self, message_number))}

\* the key lookup of decrypt: the skipped-key cache first, then the chain
message_key_for(self, message_number) ==
    IF MapHas(self.skipped_keys, MessageId(message_number))
    THEN {[self |-> [self EXCEPT !.skipped_keys =
                        MapRemove(@, MessageId(message_number))],
           err |-> Ok,
           key |-> Some(MapGet(self.skipped_keys, MessageId(message_number)))]}
    ELSE get_recv_message_key(self, message_number)

\* the tail of decrypt, once the message key is known
open_message(self, key, message) ==
    IF TooShort(message.ciphertext)
    THEN [self |-> self, err |-> CiphertextTooShort, out |-> None]
    ELSE LET nonce == First12(message.ciphertext)
             ciphertext == After12(message.ciphertext)
             plaintext == AeadOpen(key, nonce, NoAad, ciphertext)
         IN  IF ~IsSome(plaintext)
             THEN [self |-> self, err |-> DecryptionFailed, out |-> None]
             ELSE [self |-> [self EXCEPT !.recv_counter =
                                message.header.message_number],
                   err |-> Ok, out |-> plaintext]

\* decrypt: every (session after, error, plaintext) the call can end in
decrypt_outcomes(self, message) ==
    IF ~mac_verifies(self, message)
    THEN {[self |-> self, err |-> AuthenticationFailed, out |-> None]}
    ELSE IF is_replay(self, message)
    THEN {[self |-> self, err |-> ReplayDetected, out |-> None]}
    ELSE {IF k.err # Ok
          THEN [self |-> k.self, err |-> k.err, out |-> None]
          ELSE open_message(k.self, k.key.v, message)
          : k \in message_key_for(self, message.header.message_number)}

decrypt(s, message, associated_data) ==
    \E o \in decrypt_outcomes(sess[s], message) :
        /\ sess' = [sess EXCEPT ![s] = o.self]
        /\ last' = Call("decrypt", s, o.err, o.out, message, None,
                        associated_data)
        /\ UNCHANGED <<net, rng, wiped>>

----------------------------------------------------------------------------
(* dh_ratchet, pq_ratchet, mark_compromised *)

\* (mutation of dh_ratchet: send_counter is not reset)
dh_ratchet_keeps_counter(s, remote_public_key) ==
    LET self == sess[s]
        new_keypair == StaticSecret(FreshKey(s, 1))
        shared_secret == diffie_hellman(new_keypair, remote_public_key)
        out == kdf_rk(self.root_key, shared_secret)
    IN  /\ DrawKeys(s, 1)
        /\ sess' = [sess EXCEPT ![s] =
               [self EXCEPT !.root_key = out.root,
                            !.send_chain_key = Some(out.chain),
                            !.dh_send_key = Some(new_keypair),
                            !.dh_recv_key = Some(remote_public_key),
                            !.state = "Active"]]
        /\ last' = Call("dh_ratchet", s, Ok, None, NoMessage, None, "")
        /\ UNCHANGED <<net, wiped>>

dh_ratchet(s, remote_public_key) ==
    LET self == sess[s]
        new_keypair == StaticSecret(FreshKey(s, 1))
        shared_secret == diffie_hellman(new_keypair, remote_public_key)
        out == kdf_rk(self.root_key, shared_secret)
    IN  /\ DrawKeys(s, 1)
        /\ sess' = [sess EXCEPT ![s] =
               [self EXCEPT !.root_key = out.root,
                            !.send_chain_key = Some(out.chain),
                            !.dh_send_key = Some(new_keypair),
                            !.dh_recv_key = Some(remote_public_key),
                            !.send_counter = 0,
                            !.state = "Active"]]
        /\ last' = Call("dh_ratchet", s, Ok, None, NoMessage, None, "")
        /\ UNCHANGED <<net, wiped>>

pq_ratchet(s, remote_public_key) ==
    LET self == sess[s]
        pq_secret_key == PqSecretKey(FreshKey(s, 1))
        shared_secret == encapsulate(remote_public_key, FreshKey(s, 2))
        out == kdf_rk(self.root_key, shared_secret)
    IN  /\ DrawKeys(s, 2)
        /\ sess' = [sess EXCEPT ![s] =
               [self EXCEPT !.root_key = out.root,
                            !.recv_chain_key = Some(out.chain),
                            !.pq_send_key = Some(pq_secret_key),
                            !.pq_recv_key = Some(remote_public_key)]]
        /\ last' = Call("pq_ratchet", s, Ok, None, NoMessage, None, "")
        /\ UNCHANGED <<net, wiped>>

\* (mutation of mark_compromised: the skipped-key cache is kept)
mark_compromised_keeps_cache(s) ==
    /\ sess' = [sess EXCEPT ![s] =
           [sess[s] EXCEPT !.state = "Compromised",
                           !.root_key = ZeroKey,
                           !.send_chain_key = None,
                           !.recv_chain_key = None]]
    /\ last' = Call("mark_compromised", s, Ok, None, NoMessage, None, "")
    /\ wiped' = wiped \cup {s}
    /\ UNCHANGED <<net, rng>>

mark_compromised(s) ==
    /\ sess' = [sess EXCEPT ![s] =
           [sess[s] EXCEPT !.state = "Compromised",
                           !.root_key = ZeroKey,
                           !.send_chain_key = None,
                           !.recv_chain_key = None,
                           !.skipped_keys = {}]]
    /\ last' = Call("mark_compromised", s, Ok, None, NoMessage, None, "")
    /\ wiped' = wiped \cup {s}
    /\ UNCHANGED <<net, rng>>

----------------------------------------------------------------------------
(* What the callers and the network can hand to the session *)

\* the public keys a caller can pass as the peer's: the published prekeys
RemoteDhKeys == {PublicKey(PrekeyDh)}
RemotePqKeys == {PqPublicKey(PrekeyPq.id)}

\* a message in transit with one part changed by someone who holds no key of
\* the session: a rewritten header, flipped ciphertext bits, flipped MAC bits
Flipped(x) == [t |-> "flipped", of |-> x]
Renumbered(m) == [m EXCEPT !.header.message_number = @ + 1]
Tampered(m) ==
    {Renumbered(m), [m EXCEPT !.ciphertext = Flipped(@)],
     [m EXCEPT !.mac = Flipped(@)]}

\* the all-zero root key of a session that was never keyed, or was wiped, is
\* public: anyone can compute a MAC under it
ZeroMac(m) == [m EXCEPT !.mac = compute_mac(ZeroKey, m.header, m.ciphertext)]

DecryptInputs ==
    net \cup UNION {Tampered(m) : m \in net} \cup {ZeroMac(m) : m \in net}

----------------------------------------------------------------------------
(* The message codec: hybrid_ratchet.rs, secure_message.rs, audio.rs,       *)
(* file_transfer.rs, ephemeral_keys.rs                                      *)

\* draws of the codec paths from OsRng, kyber768 and dilithium2: the k-th
\* next value
FreshC(k) == <<"codec", drawn + k>>

\* dilithium2: keypair, sign, verify
DilithiumPk(id) == [t |-> "dilpk", id |-> id]
DilithiumSk(id) == [t |-> "dilsk", id |-> id]
sign(msg, sk) == [t |-> "sig", id |-> sk.id, msg |-> msg]
verify(msg, sig, pk) ==
    /\ sig.t = "sig"
    /\ pk.t = "dilpk"
    /\ sig.msg = msg
    /\ sig.id = pk.id

\* kyber768: encapsulate returns a ciphertext with the shared secret;
\* decapsulate returns that secret under the secret key it was made for,
\* and an unrelated value under any other
PqCiphertext(ss) == [t |-> "pqct", ss |-> ss]
decapsulate(ct, sk) ==
    IF ct.ss.to = sk.id THEN ct.ss ELSE [t |-> "pqgarbage", ct |-> ct, sk |-> sk]

\* double_ratchet::Ratchet, a library: what the codec sees of it is the
\* header send returns, whether recv accepts a header, and root_key().  A
\* send may or may not move the root key on; a recv may refuse the header,
\* and otherwise leaves the ratchet at the root key the header was sent at.
DrNew(initiator) == [initiator |-> initiator, epoch |-> 0]
DrSend(dr) == {dr, [dr EXCEPT !.epoch = @ + 1]}
DrHeader(dr) == [t |-> "drheader", epoch |-> dr.epoch]
DrRecv(dr, header) ==
    {[ok |-> FALSE, dr |-> dr], [ok |-> TRUE, dr |-> [dr EXCEPT !.epoch = header.epoch]]}
DrRootKey(dr) == [t |-> "drroot", epoch |-> dr.epoch]

\* hybrid_ratchet.rs
PQ_REKEY_PERIOD == 1

\* HybridRatchet::new
HybridRatchet_new(s, initiator) ==
    [dr |-> DrNew(initiator),
     pq_pk |-> PqPublicKey(<<"hybrid", s>>),
     pq_sk |-> PqSecretKey(<<"hybrid", s>>),
     pq_shared |-> ZeroKey,
     send_ctr |-> 0]

\* HybridRatchet::pq_reencap: the ratchet after, and the ciphertext returned
pq_reencap(r, remote_pk, id) ==
    LET ss == encapsulate(remote_pk, id)
    IN  [r |-> [r EXCEPT !.pq_shared = ss], ct |-> PqCiphertext(ss)]

\* HybridRatchet::pq_decaps
pq_decaps(r, ct) == [r EXCEPT !.pq_shared = decapsulate(ct, r.pq_sk)]

\* HybridRatchet::derive_root_key: HKDF(salt = pq_shared, ikm = dr.root_key())
HybridRatchet_derive_root_key(r) ==
    [t |-> "hybrid_root", salt |-> r.pq_shared, ikm |-> DrRootKey(r.dr)]

\* (mutation of rekey_step: send_ctr is raised, the PQ secret never replaced)
rekey_step_never(r, peer_pq_pk, id) ==
    [r |-> [r EXCEPT !.send_ctr = (@ + 1) % CtrWrap], pq_ct |-> None]

\* (send_ctr is a u32 and wrapping_add wraps it at 2^32, here at CtrWrap)
\* the send_ctr step and PQ re-encapsulation schedule of SecureMsg::encrypt
\* and encrypt_chunk: the ratchet after, and the pq_ct field
rekey_step(r, peer_pq_pk, id) ==
    LET counted == [r EXCEPT !.send_ctr = (@ + 1) % CtrWrap]
    IN  IF counted.send_ctr % PQ_REKEY_PERIOD = 0
        THEN LET e == pq_reencap(counted, peer_pq_pk, id)
             IN  [r |-> e.r, pq_ct |-> Some(e.ct)]
        ELSE [r |-> counted, pq_ct |-> None]

\* ephemeral_keys.rs: the store is a map from sender id to key bytes
EphemeralKeyMismatch == "Ephemeral key mismatch detected (possible MITM)"

\* (mutation of verify_and_pin_ephemeral_key: a different key replaces the
\* pinned one)
verify_and_pin_ephemeral_key_repin(store, sender_id, ephemeral_pk) ==
    [store |-> [x \in DOMAIN store \cup {sender_id} |->
                   IF x = sender_id THEN ephemeral_pk ELSE store[x]],
     err |-> Ok]

\* verify_and_pin_ephemeral_key: the store after, and the result
verify_and_pin_ephemeral_key(store, sender_id, ephemeral_pk) ==
    IF sender_id \in DOMAIN store
    THEN IF store[sender_id] # ephemeral_pk
         THEN [store |-> store, err |-> EphemeralKeyMismatch]
         ELSE [store |-> store, err |-> Ok]
    ELSE [store |-> store @@ (sender_id :> ephemeral_pk), err |-> Ok]

\* what a codec call reports
Done(op, s, err, out, msg, sender_id) ==
    [op |-> op, who |-> s, err |-> err, out |-> out, msg |-> msg,
     sender_id |-> sender_id]

\* (mutation of Flagged: the flag byte is always 0)
Flagged_as_real(is_dummy, plaintext) ==
    [t |-> "flagged", flag |-> 0, plaintext |-> plaintext]

\* the flag byte pushed in front of the plaintext
Flagged(is_dummy, plaintext) ==
    [t |-> "flagged", flag |-> IF is_dummy THEN 1 ELSE 0,
     plaintext |-> plaintext]

\* SecureMsg::encrypt
SecureMsg_encrypt(s, peer_pq_pk, plaintext, is_dummy) ==
    \E dr \in DrSend(hyb[s].dr) :
        LET header == DrHeader(dr)
            k == rekey_step([hyb[s] EXCEPT !.dr = dr], peer_pq_pk, FreshC(1))
            ephemeral_sk == DilithiumSk(FreshC(2))
            ephemeral_pk == DilithiumPk(FreshC(3))
            root == HybridRatchet_derive_root_key(k.r)
            nonce == Nonce(FreshC(4))
            ciphertext == AeadSeal(root, nonce, NoAad,
                                   Flagged(is_dummy, plaintext))
            signature == sign(ciphertext, ephemeral_sk)
            msg == [kind |-> "SecureMsg", header |-> header, nonce |-> nonce,
                    body |-> ciphertext, pq_ct |-> k.pq_ct,
                    is_dummy |-> is_dummy, ephemeral_pk |-> ephemeral_pk,
                    ephemeral_sig |-> signature]
        IN  /\ hyb' = [hyb EXCEPT ![s] = k.r]
            /\ wire' = wire \cup {msg}
            /\ drawn' = drawn + 4
            /\ done' = Done("SecureMsg::encrypt", s, Ok, Some(msg), NoMessage, "")
            /\ UNCHANGED pinned

DrRecvFailed == "double_ratchet recv failed"
TextDecryptFailed == "text message decryption failed"
AudioDecryptFailed == "audio packet decrypt failed"
SignatureInvalid == "ephemeral signature verification failed"

\* the tail shared by SecureMsg::decrypt and decrypt_audio_packet: AEAD
\* open, signature check, pinning, flag byte
open_signed(r, store, failed, nonce, body, pk, sig, sender_id) ==
    LET decrypted == AeadOpen(HybridRatchet_derive_root_key(r), nonce, NoAad,
                              body)
        pin == verify_and_pin_ephemeral_key(store, sender_id, pk)
    IN  IF ~IsSome(decrypted)
        THEN [r |-> r, store |-> store, err |-> failed, out |-> None]
        ELSE IF ~verify(body, sig, pk)
        THEN [r |-> r, store |-> store, err |-> SignatureInvalid, out |-> None]
        ELSE IF pin.err # Ok
        THEN [r |-> r, store |-> store, err |-> pin.err, out |-> None]
        ELSE [r |-> r, store |-> pin.store, err |-> Ok,
              out |-> IF decrypted.v.flag # 0 THEN None
                      ELSE Some(decrypted.v.plaintext)]

\* SecureMsg::decrypt: every (ratchet after, store after, result)
SecureMsg_decrypt_outcomes(r, store, msg, sender_id) ==
    LET decapsed == IF IsSome(msg.pq_ct) THEN pq_decaps(r, msg.pq_ct.v) ELSE r
    IN  {IF ~rc.ok
         THEN [r |-> [decapsed EXCEPT !.dr = rc.dr], store |-> store,
               err |-> DrRecvFailed, out |-> None]
         ELSE open_signed([decapsed EXCEPT !.dr = rc.dr], store,
                          TextDecryptFailed, msg.nonce, msg.body,
                          msg.ephemeral_pk, msg.ephemeral_sig, sender_id)
         : rc \in DrRecv(decapsed.dr, msg.header)}

SecureMsg_decrypt(s, msg, sender_id) ==
    \E o \in SecureMsg_decrypt_outcomes(hyb[s], pinned, msg, sender_id) :
        /\ hyb' = [hyb EXCEPT ![s] = o.r]
        /\ pinned' = o.store
        /\ done' = Done("SecureMsg::decrypt", s, o.err, o.out, msg, sender_id)
        /\ UNCHANGED <<wire, drawn>>

\* encrypt_audio_packet
encrypt_audio_packet(s, plaintext, version, seq, is_dummy) ==
    LET ephemeral_sk == DilithiumSk(FreshC(1))
        ephemeral_pk == DilithiumPk(FreshC(2))
        root == HybridRatchet_derive_root_key(hyb[s])
        nonce == Nonce(FreshC(3))
        ciphertext == AeadSeal(root, nonce, NoAad, Flagged(is_dummy, plaintext))
        signature == sign(ciphertext, ephemeral_sk)
        packet == [kind |-> "AudioPacket", version |-> version, seq |-> seq,
                   nonce |-> nonce, ciphertext |-> ciphertext,
                   ephemeral_pk |-> ephemeral_pk,
                   ephemeral_sig |-> signature, is_dummy |-> is_dummy]
    IN  /\ wire' = wire \cup {packet}
        /\ drawn' = drawn + 3
        /\ done' = Done("encrypt_audio_packet", s, Ok, Some(packet), NoMessage, "")
        /\ UNCHANGED <<hyb, pinned>>

\* decrypt_audio_packet
decrypt_audio_packet(s, packet, sender_id) ==
    LET o == open_signed(hyb[s], pinned, AudioDecryptFailed, packet.nonce,
                         packet.ciphertext, packet.ephemeral_pk,
                         packet.ephemeral_sig, sender_id)
    IN  /\ pinned' = o.store
        /\ done' = Done("decrypt_audio_packet", s, o.err, o.out, packet,
                        sender_id)
        /\ UNCHANGED <<hyb, wire, drawn>>

\* encrypt_chunk
encrypt_chunk(s, peer_pq_pk, file_id, seq, plaintext, is_dummy, is_hash) ==
    LET k == rekey_step(hyb[s], peer_pq_pk, FreshC(1))
        ephemeral_sk == DilithiumSk(FreshC(2))
        ephemeral_pk == DilithiumPk(FreshC(3))
        root == HybridRatchet_derive_root_key(k.r)
        nonce == Nonce(FreshC(4))
        ciphertext == AeadSeal(root, nonce, NoAad, plaintext)
        signature == sign(ciphertext, ephemeral_sk)
        chunk == [kind |-> "FileChunk", file_id |-> file_id,
                  seq_number |-> seq, nonce |-> nonce,
                  ciphertext |-> ciphertext, pq_ct |-> k.pq_ct,
                  is_dummy |-> is_dummy, is_hash |-> is_hash,
                  ephemeral_pk |-> ephemeral_pk, ephemeral_sig |-> signature]
    IN  /\ hyb' = [hyb EXCEPT ![s] = k.r]
        /\ wire' = wire \cup {chunk}
        /\ drawn' = drawn + 4
        /\ done' = Done("encrypt_chunk", s, Ok, Some(chunk), NoMessage, "")
        /\ UNCHANGED pinned

\* a direct call of verify_and_pin_ephemeral_key
pin_call(sender_id, ephemeral_pk) ==
    LET pin == verify_and_pin_ephemeral_key(pinned, sender_id, ephemeral_pk)
    IN  /\ pinned' = pin.store
        /\ done' = Done("verify_and_pin_ephemeral_key", sender_id, pin.err,
                        Some(ephemeral_pk), NoMessage, sender_id)
        /\ UNCHANGED <<hyb, wire, drawn>>

\* the parties that hold a HybridRatchet, and the sender ids a caller may
\* attribute a message to
Parties == {"alice", "bob"}
\* messages go one way: from the initiator to the other party
Sending == "alice"
Receiving == "bob"
SenderIds == {"alice", "bob"}
Versions == {1}
FileIds == {7}
\* the (is_dummy, is_hash) pairs send_file passes: data, cover and hash chunks
ChunkFlags == {<<FALSE, FALSE>>, <<TRUE, FALSE>>, <<FALSE, TRUE>>}

\* someone on the network can sign a body with a key pair of their own and
\* put their public key in the envelope: the signature is bound to nothing
AttackerKeys == {DilithiumSk(<<"mallory", 1>>)}
Body(m) == IF m.kind = "SecureMsg" THEN m.body ELSE m.ciphertext
Resigned(m, sk) ==
    [m EXCEPT !.ephemeral_pk = DilithiumPk(sk.id),
              !.ephemeral_sig = sign(Body(m), sk)]
CodecInputs(kind) ==
    LET sent == {m \in wire : m.kind = kind}
    IN  sent \cup {Resigned(m, sk) : m \in sent, sk \in AttackerKeys}
PinKeys ==
    {m.ephemeral_pk : m \in wire} \cup {DilithiumPk(sk.id) : sk \in AttackerKeys}

\* the codec after construction: HybridRatchet::new on each side, an empty
\* EphemeralKeyStore
CodecInit ==
    /\ hyb = [s \in Parties |-> HybridRatchet_new(s, s = "alice")]
    /\ pinned = <<>>
    /\ wire = {}
    /\ drawn = 0
    /\ done = Done("new", "alice", Ok, None, NoMessage, "")

----------------------------------------------------------------------------
(* File transfer: file_transfer.rs.  send_file, the cover task it spawns    *)
(* and receive_file are async: one action per loop iteration.               *)

\* blake3 over the data fed to a hasher
Blake3(data) == [t |-> "blake3", of |-> data]

\* the cover task's own HybridRatchet: `let mut dummy_r = r.clone()`
DummyR == "dummy_r"

\* (dropped is history: the chunks reported as `Dropped dummy chunk`)
FileInit ==
    xfer = [spc |-> "idle", seq |-> 0, cover |-> FALSE, dummy_seq |-> 0,
            hasher |-> <<>>, rpc |-> "idle", expected_file_id |-> 0,
            rhasher |-> <<>>, file |-> <<>>, dropped |-> <<>>,
            verified |-> FALSE, result |-> None]

\* send_file up to its loop: seq = 0, a new hasher and, with enable_cover,
\* the spawned task, which moves a clone of the ratchet and a copy of seq
send_file_start(s, enable_cover) ==
    /\ xfer.spc = "idle"
    /\ xfer' = [xfer EXCEPT !.spc = "sending", !.seq = 0, !.hasher = <<>>,
                            !.cover = enable_cover, !.dummy_seq = 0]
    /\ hyb' = IF enable_cover
              THEN [x \in DOMAIN hyb \cup {DummyR} |->
                       IF x = DummyR THEN hyb[s] ELSE hyb[x]]
              ELSE hyb
    /\ done' = Done("send_file", s, Ok, None, NoMessage, "")
    /\ UNCHANGED <<pinned, wire, drawn>>

\* one round of the cover task: a dummy chunk from dummy_r under the task's
\* seq.  The task is never stopped, also not when send_file has returned.
\* (seq is a u32 and wraps at 2^32, which no run within MaxDrawnFile reaches)
send_file_cover(peer_pq_pk, file_id) ==
    /\ xfer.cover
    /\ encrypt_chunk(DummyR, peer_pq_pk, file_id, xfer.dummy_seq,
                     [t |-> "bytes", b |-> ""], TRUE, FALSE)
    /\ xfer' = [xfer EXCEPT !.dummy_seq = @ + 1]

\* one round of the read loop: a data chunk
send_file_chunk(s, peer_pq_pk, file_id, data) ==
    /\ xfer.spc = "sending"
    /\ encrypt_chunk(s, peer_pq_pk, file_id, xfer.seq, data, FALSE, FALSE)
    /\ xfer' = [xfer EXCEPT !.seq = @ + 1,
                            !.hasher = Append(@, data)]

\* end of the file: the hash chunk, and Ok(())
send_file_hash(s, peer_pq_pk, file_id) ==
    /\ xfer.spc = "sending"
    /\ encrypt_chunk(s, peer_pq_pk, file_id, xfer.seq, Blake3(xfer.hasher),
                     FALSE, TRUE)
    /\ xfer' = [xfer EXCEPT !.spc = "returned"]

\* receive_file up to its loop: the output file created, a new hasher
receive_file_start(expected_file_id) ==
    /\ xfer.rpc = "idle"
    /\ xfer' = [xfer EXCEPT !.rpc = "reading",
                            !.expected_file_id = expected_file_id,
                            !.rhasher = <<>>, !.file = <<>>,
                            !.dropped = <<>>, !.verified = FALSE,
                            !.result = None]
    /\ done' = Done("receive_file", Receiving, Ok, None, NoMessage, "")
    /\ UNCHANGED <<hyb, pinned, wire, drawn>>

\* receive_file returns
receive_file_return(s, r, store, err, verified) ==
    /\ hyb' = [hyb EXCEPT ![s] = r]
    /\ pinned' = store
    /\ xfer' = [xfer EXCEPT !.rpc = "idle", !.result = Some(err),
                            !.verified = verified]
    /\ done' = Done("receive_file", s, err, None, NoMessage, "")
    /\ UNCHANGED <<wire, drawn>>

\* the stream ends where a length is read: break, and Ok(())
receive_file_eof(s) ==
    /\ xfer.rpc = "reading"
    /\ receive_file_return(s, hyb[s], pinned, Ok, FALSE)

\* the stream ends inside a chunk
receive_file_cut(s) ==
    /\ xfer.rpc = "reading"
    /\ receive_file_return(s, hyb[s], pinned, "chunk read failed", FALSE)

\* one round of the loop of receive_file, on the chunk read
receive_file_chunk(s, chunk, sender_id) ==
    LET r == IF IsSome(chunk.pq_ct) THEN pq_decaps(hyb[s], chunk.pq_ct.v)
             ELSE hyb[s]
        decrypted == AeadOpen(HybridRatchet_derive_root_key(r), chunk.nonce,
                              NoAad, chunk.ciphertext)
        pin == verify_and_pin_ephemeral_key(pinned, sender_id,
                                            chunk.ephemeral_pk)
        continue(rr, store, x) ==
            /\ hyb' = [hyb EXCEPT ![s] = rr]
            /\ pinned' = store
            /\ xfer' = x
            /\ done' = Done("receive_file", s, Ok, None, chunk, sender_id)
            /\ UNCHANGED <<wire, drawn>>
    IN  /\ xfer.rpc = "reading"
        /\ IF chunk.file_id # xfer.expected_file_id
           THEN continue(hyb[s], pinned, xfer)
           ELSE IF ~IsSome(decrypted)
           THEN receive_file_return(s, r, pinned, "chunk decrypt failed", FALSE)
           ELSE IF ~verify(chunk.ciphertext, chunk.ephemeral_sig,
                           chunk.ephemeral_pk)
           THEN receive_file_return(s, r, pinned, "signature verification failed", FALSE)
           ELSE IF pin.err # Ok
           THEN receive_file_return(s, r, pinned, pin.err, FALSE)
           ELSE IF chunk.is_dummy
           THEN continue(r, pin.store,
                         [xfer EXCEPT !.dropped = Append(@, chunk.ciphertext)])
           ELSE IF chunk.is_hash
           THEN IF decrypted.v = Blake3(xfer.rhasher)
                THEN receive_file_return(s, r, pin.store, Ok, TRUE)
                ELSE receive_file_return(s, r, pin.store, "File hash mismatch",
                                         FALSE)
           \* hasher.update and write_all of no bytes change nothing
           ELSE IF decrypted.v = [t |-> "bytes", b |-> ""]
           THEN continue(r, pin.store, xfer)
           ELSE continue(r, pin.store,
                         [xfer EXCEPT !.rhasher = Append(@, decrypted.v),
                                      !.file = Append(@, decrypted.v)])


----------------------------------------------------------------------------
(* The key store: security/secure_keystore.rs.  The in-memory object: its   *)
(* master key and its map of encrypted entries.  The random generator and   *)
(* the file system can fail: each call is given whether they do.            *)

\* draws of the key store from secure_rng: the k-th next value
FreshK(k) == <<"keystore", ks.drawn + k>>

\* SecureKeyStore::new on a path with no files: a generated master key, no
\* entries.  (History: stored, the ids store_key returned Ok for, less
\* those delete_key was called on; plain, what store_key was last given for
\* each id it put into the map; rot_err, whether a rotate_master_key call
\* has returned an error)
KeyStoreInit ==
    ks = [master_key |-> <<"keystore", 0>>, keys |-> <<>>, drawn |-> 0,
          stored |-> {}, plain |-> <<>>, rot_err |-> FALSE,
          last |-> [op |-> "new", key_id |-> "", err |-> Ok, out |-> None]]

\* the key ids callers pass, with their lengths
KeyIds == {"", "k1", "k2", "long"}
key_id_len(key_id) ==
    IF key_id = "" THEN 0 ELSE IF key_id = "long" THEN 257 ELSE 2

KsCall(op, key_id, err, out) ==
    [op |-> op, key_id |-> key_id, err |-> err, out |-> out]

\* cipher.decrypt(nonce, entry.encrypted_data) under a master key
decrypt_entry(master_key, entry) ==
    AeadOpen(master_key, Nonce(entry.nonce), NoAad, entry.encrypted_data)

\* SecureKeyStore::store_key
store_key(key_id, key_data, rng_ok, save_ok) ==
    LET nonce_bytes == FreshK(1)
        entry == [encrypted_data |->
                      AeadSeal(ks.master_key, Nonce(nonce_bytes), NoAad,
                               key_data),
                  nonce |-> nonce_bytes]
    IN  IF key_id_len(key_id) = 0 \/ key_id_len(key_id) > 256
        THEN ks' = [ks EXCEPT !.last = KsCall("store_key", key_id,
                                              "Invalid key ID", None)]
        ELSE IF ~rng_ok
        THEN ks' = [ks EXCEPT !.last = KsCall("store_key", key_id,
                                              "rng failed", None)]
        ELSE ks' = [ks EXCEPT
                 !.keys = [x \in DOMAIN @ \cup {key_id} |->
                              IF x = key_id THEN entry ELSE @[x]],
                 !.drawn = @ + 1,
                 !.plain = [x \in DOMAIN @ \cup {key_id} |->
                               IF x = key_id THEN key_data ELSE @[x]],
                 !.stored = IF save_ok THEN @ \cup {key_id} ELSE @,
                 !.last = KsCall("store_key", key_id,
                                 IF save_ok THEN Ok
                                 ELSE "Failed to write keystore file", None)]

\* SecureKeyStore::retrieve_key
retrieve_key(key_id) ==
    LET out == IF key_id \in DOMAIN ks.keys
               THEN decrypt_entry(ks.master_key, ks.keys[key_id])
               ELSE None
    IN  ks' = [ks EXCEPT !.last =
                   IF key_id \notin DOMAIN ks.keys
                   THEN KsCall("retrieve_key", key_id, Ok, None)
                   ELSE IF IsSome(out)
                   THEN KsCall("retrieve_key", key_id, Ok, out)
                   ELSE KsCall("retrieve_key", key_id, "Decryption failed",
                               None)]

\* (mutation of delete_key: the entry stays in the map)
delete_key_keeps(key_id, save_ok) ==
    ks' = [ks EXCEPT
           !.stored = @ \ {key_id},
           !.plain = [x \in DOMAIN @ \ {key_id} |-> @[x]],
           !.last = KsCall("delete_key", key_id, Ok,
                           Some(key_id \in DOMAIN ks.keys))]

\* SecureKeyStore::delete_key
delete_key(key_id, save_ok) ==
    LET removed == key_id \in DOMAIN ks.keys
    IN  ks' = [ks EXCEPT
               !.keys = [x \in DOMAIN @ \ {key_id} |-> @[x]],
               !.stored = @ \ {key_id},
               !.plain = [x \in DOMAIN @ \ {key_id} |-> @[x]],
               !.last = IF removed /\ ~save_ok
                        THEN KsCall("delete_key", key_id,
                                    "Failed to write keystore file", None)
                        ELSE KsCall("delete_key", key_id, Ok, Some(removed))]

\* SecureKeyStore::list_keys (the ids of the Vec, as a set: a HashMap has
\* each key once) and SecureKeyStore::has_key
list_keys ==
    ks' = [ks EXCEPT !.last = KsCall("list_keys", "", Ok,
                                     Some(DOMAIN ks.keys))]
has_key(key_id) ==
    ks' = [ks EXCEPT !.last = KsCall("has_key", key_id, Ok,
                                     Some(key_id \in DOMAIN ks.keys))]

\* (mutation of rotate_sweep: the entry keeps its old nonce)
RECURSIVE rotate_sweep_old_nonce(_, _, _, _, _, _)
rotate_sweep_old_nonce(keys, order, i, old_key, new_key, rng_fails_at) ==
    IF i > Len(order) THEN [keys |-> keys, err |-> Ok]
    ELSE LET entry == keys[order[i]]
             decrypted_data == decrypt_entry(old_key, entry)
         IN  IF ~IsSome(decrypted_data)
             THEN [keys |-> keys, err |-> "Failed to decrypt during rotation"]
             ELSE IF rng_fails_at = i
             THEN [keys |-> keys, err |-> "rng failed"]
             ELSE rotate_sweep_old_nonce(
                      [keys EXCEPT ![order[i]] =
                          [encrypted_data |->
                               AeadSeal(new_key, Nonce(FreshK(1 + i)), NoAad,
                                        decrypted_data.v),
                           nonce |-> entry.nonce]],
                      order, i + 1, old_key, new_key, rng_fails_at)

\* the loop of rotate_master_key over keys.iter_mut(), in the order the
\* map yields its entries, from the i-th on: the map after, and the error
\* that ended the loop early
RECURSIVE rotate_sweep(_, _, _, _, _, _)
rotate_sweep(keys, order, i, old_key, new_key, rng_fails_at) ==
    IF i > Len(order) THEN [keys |-> keys, err |-> Ok]
    ELSE LET entry == keys[order[i]]
             decrypted_data == decrypt_entry(old_key, entry)
             new_nonce_bytes == FreshK(1 + i)
         IN  IF ~IsSome(decrypted_data)
             THEN [keys |-> keys, err |-> "Failed to decrypt during rotation"]
             ELSE IF rng_fails_at = i
             THEN [keys |-> keys, err |-> "rng failed"]
             ELSE rotate_sweep(
                      [keys EXCEPT ![order[i]] =
                          [encrypted_data |->
                               AeadSeal(new_key, Nonce(new_nonce_bytes),
                                        NoAad, decrypted_data.v),
                           nonce |-> new_nonce_bytes]],
                      order, i + 1, old_key, new_key, rng_fails_at)

\* SecureKeyStore::rotate_master_key.  rng_fails_at: 0 for the draw of the
\* new master key, i for the nonce of the i-th entry, above that for none
rotate_master_key(order, rng_fails_at, save_ok) ==
    LET new_master_key == FreshK(1)
        swept == rotate_sweep(ks.keys, order, 1, ks.master_key,
                              new_master_key, rng_fails_at)
    IN  IF rng_fails_at = 0
        THEN ks' = [ks EXCEPT !.rot_err = TRUE,
                              !.last = KsCall("rotate_master_key", "",
                                              "rng failed", None)]
        ELSE IF swept.err # Ok
        THEN ks' = [ks EXCEPT !.keys = swept.keys,
                              !.drawn = @ + 1 + Len(order),
                              !.rot_err = TRUE,
                              !.last = KsCall("rotate_master_key", "",
                                              swept.err, None)]
        ELSE ks' = [ks EXCEPT
                 !.keys = swept.keys,
                 !.master_key = new_master_key,
                 !.drawn = @ + 1 + Len(order),
                 !.rot_err = @ \/ ~save_ok,
                 !.last = KsCall("rotate_master_key", "",
                                 IF save_ok THEN Ok
                                 ELSE "Failed to write keystore file", None)]

\* the orders in which a HashMap can yield its entries
IterOrders(keys) ==
    {o \in [1..Cardinality(DOMAIN keys) -> DOMAIN keys] :
        \A i, j \in DOMAIN o : i # j => o[i] # o[j]}

----------------------------------------------------------------------------
(* The allocator: security/secure_memory.rs *)

\* get_page_size() and the max_allocation of the tests, 4096 and 1024 bytes,
\* in units of 512 bytes
PageSize == 8
MaxAllocation == 2

\* SecureAllocator::with_max_allocation: nothing allocated.  regions: the
\* SecureMemoryRegions not yet dropped, by the order of their allocation
Allocator(max_allocation) ==
    [allocated_bytes |-> 0, max_allocation |-> max_allocation,
     regions |-> <<>>,
     last |-> [op |-> "with_max_allocation", size |-> 0, err |-> Ok]]
AllocInit == mem = Allocator(MaxAllocation)

\* a new allocator, once the regions of the previous one are dropped (a
\* region borrows its allocator)
with_max_allocation(max_allocation) ==
    /\ mem.regions = <<>>
    /\ mem' = Allocator(max_allocation)

\* size rounded up to the page boundary: (size + page - 1) & !(page - 1)
aligned(size) == ((size + PageSize - 1) \div PageSize) * PageSize

\* SecureAllocator::allocate_secure.  mlock_ok: whether the system locks the
\* pages
allocate_secure(size, mlock_ok) ==
    LET result(err) == [op |-> "allocate_secure", size |-> size, err |-> err]
    IN  IF size = 0
        THEN mem' = [mem EXCEPT !.last = result("Cannot allocate zero bytes")]
        ELSE IF mem.allocated_bytes + size > mem.max_allocation
        THEN mem' = [mem EXCEPT !.last =
                        result("Allocation would exceed maximum limit")]
        ELSE IF ~mlock_ok
        THEN mem' = [mem EXCEPT !.last = result("Failed to lock memory")]
        ELSE mem' = [mem EXCEPT
                 !.allocated_bytes = @ + aligned(size),
                 !.regions = Append(@, [size |-> aligned(size),
                                        actual_size |-> size]),
                 !.last = result(Ok)]

\* SecureMemoryRegion::drop of the i-th live region: SecureAllocator::deallocate
deallocate(i) ==
    /\ i \in DOMAIN mem.regions
    /\ mem' = [mem EXCEPT
           !.allocated_bytes = @ - mem.regions[i].size,
           !.regions = SubSeq(@, 1, i - 1) \o SubSeq(@, i + 1, Len(@)),
           !.last = [op |-> "deallocate", size |-> mem.regions[i].actual_size,
                     err |-> Ok]]

----------------------------------------------------------------------------
(* Concurrent callers of the pinning registry: ephemeral_keys.rs.  The      *)
(* store is an Arc<Mutex<HashMap>>; one action per statement of a call.     *)

\* no thread is in a call and the mutex is free
PinInit ==
    thr = [holder |-> None,
           of |-> [t \in 1..MaxThreads |->
                      [pc |-> "idle", sender_id |-> "", ephemeral_pk |-> None,
                       result |-> None]]]

\* (mutation of pin_lock: the mutex is taken whoever holds it)
pin_lock_unguarded(t, sender_id, ephemeral_pk) ==
    /\ thr.of[t].pc = "idle"
    /\ thr' = [thr EXCEPT !.holder = Some(t),
                          !.of[t] = [pc |-> "get", sender_id |-> sender_id,
                                     ephemeral_pk |-> Some(ephemeral_pk),
                                     result |-> None]]
    /\ UNCHANGED pinned

\* thread t calls verify_and_pin_ephemeral_key and passes store.lock()
pin_lock(t, sender_id, ephemeral_pk) ==
    /\ thr.of[t].pc = "idle"
    /\ thr.holder = None
    /\ thr' = [thr EXCEPT !.holder = Some(t),
                          !.of[t] = [pc |-> "get", sender_id |-> sender_id,
                                     ephemeral_pk |-> Some(ephemeral_pk),
                                     result |-> None]]
    /\ UNCHANGED pinned

\* pinned.get(sender_id) and the comparison; a return drops the guard
pin_get(t) ==
    LET me == thr.of[t]
    IN  /\ me.pc = "get"
        /\ IF me.sender_id \in DOMAIN pinned
           THEN thr' = [thr EXCEPT
                    !.holder = None,
                    !.of[t].pc = "returned",
                    !.of[t].result =
                        IF pinned[me.sender_id] # me.ephemeral_pk.v
                        THEN Some(EphemeralKeyMismatch)
                        ELSE Some(Ok)]
           ELSE thr' = [thr EXCEPT !.of[t].pc = "insert"]
        /\ UNCHANGED pinned

\* pinned.insert(sender_id, ephemeral_pk), then Ok(())
pin_insert(t) ==
    LET me == thr.of[t]
    IN  /\ me.pc = "insert"
        /\ pinned' = [x \in DOMAIN pinned \cup {me.sender_id} |->
                         IF x = me.sender_id THEN me.ephemeral_pk.v
                         ELSE pinned[x]]
        /\ thr' = [thr EXCEPT !.holder = None,
                              !.of[t].pc = "returned",
                              !.of[t].result = Some(Ok)]

----------------------------------------------------------------------------
(* The specifications *)

Sessions == DOMAIN sess

\* the bounds, on the state a step leads to: the draws of all sessions
\* together, and the length of each receive chain
RECURSIVE Total(_, _)
Total(f, S) ==
    IF S = {} THEN 0
    ELSE LET x == CHOOSE y \in S : TRUE IN f[x] + Total(f, S \ {x})

Within(max_keys, max_nonces) ==
    /\ Total([s \in Sessions |-> rng'[s].keys], Sessions) <= max_keys
    /\ Total([s \in Sessions |-> rng'[s].nonces], Sessions) <= max_nonces
    /\ \A s \in Sessions :
           IsSome(sess'[s].recv_chain_key) =>
               sess'[s].recv_chain_key.v.n <= MaxChain
    /\ UNCHANGED <<cvars, xvars>>

\* any call, by any caller, within the bounds
Step(max_keys, max_nonces) ==
    \/ \E s \in Sessions, ss \in SharedSecrets, dh \in RemoteDhKeys,
          pq \in RemotePqKeys :
          initialize_sender(s, ss, dh, pq) /\ Within(max_keys, max_nonces)
    \/ \E s \in Sessions, ss \in SharedSecrets :
          initialize_receiver(s, ss, PrekeyDh, PrekeyPq)
              /\ Within(max_keys, max_nonces)
    \/ \E s \in Sessions, p \in Plaintexts, ad \in AssociatedData,
          now \in Timestamps :
          encrypt(s, p, ad, now) /\ Within(max_keys, max_nonces)
    \/ \E s \in Sessions, m \in DecryptInputs, ad \in AssociatedData :
          decrypt(s, m, ad) /\ Within(max_keys, max_nonces)
    \/ \E s \in Sessions, dh \in RemoteDhKeys :
          dh_ratchet(s, dh) /\ Within(max_keys, max_nonces)
    \/ \E s \in Sessions, pq \in RemotePqKeys :
          pq_ratchet(s, pq) /\ Within(max_keys, max_nonces)
    \/ \E s \in Sessions : mark_compromised(s) /\ UNCHANGED <<cvars, xvars>>

InitOf(sessions) ==
    /\ sess = [s \in sessions |-> new]
    /\ net = {}
    /\ rng = [s \in sessions |-> [keys |-> 0, nonces |-> 0]]
    /\ last = Call("new", "alice", Ok, None, NoMessage, None, "")
    /\ wiped = {}
    /\ CodecInit
    /\ FileInit
    /\ KeyStoreInit
    /\ AllocInit
    /\ PinInit

\* one session, which is also handed its own messages
Init == InitOf({"alice"})
Next == Step(MaxKeys, MaxNonces)
Spec == Init /\ [][Next]_vars

\* a sender and a receiver
InitPair == InitOf({"alice", "bob"})
NextPair == Step(MaxKeysPair, MaxNoncesPair)
SpecPair == InitPair /\ [][NextPair]_vars

\* the codec: two parties, one pinning store at the receiving end
CodecWithin ==
    /\ drawn' <= MaxDrawn
    /\ \A s \in Parties : hyb'[s].dr.epoch <= MaxEpoch
    /\ UNCHANGED <<rvars, xvars>>

CodecStep ==
    \/ \E p \in Plaintexts, is_dummy \in BOOLEAN :
          SecureMsg_encrypt(Sending, hyb[Receiving].pq_pk, p, is_dummy)
              /\ CodecWithin
    \/ \E m \in CodecInputs("SecureMsg"), id \in SenderIds :
          SecureMsg_decrypt(Receiving, m, id) /\ CodecWithin
    \/ \E p \in Plaintexts, v \in Versions, is_dummy \in BOOLEAN :
          encrypt_audio_packet(Sending, p, v, Cardinality(wire), is_dummy)
              /\ CodecWithin
    \/ \E m \in CodecInputs("AudioPacket"), id \in SenderIds :
          decrypt_audio_packet(Receiving, m, id) /\ CodecWithin
    \/ \E p \in Plaintexts, f \in FileIds, flags \in ChunkFlags :
          encrypt_chunk(Sending, hyb[Receiving].pq_pk, f, Cardinality(wire),
                        p, flags[1], flags[2])
              /\ CodecWithin
    \/ \E id \in SenderIds, k \in PinKeys : pin_call(id, k) /\ CodecWithin

InitCodec == InitOf({"alice"})
NextCodec == CodecStep
SpecCodec == InitCodec /\ [][NextCodec]_vars

\* a file transfer from the initiator to the other party, with or without
\* cover traffic, over a stream that someone else can reorder, cut and
\* re-sign
FileWithin ==
    /\ drawn' <= MaxDrawnFile
    /\ Len(xfer'.file) <= MaxWritten
    /\ Len(xfer'.dropped) <= MaxDropped
    /\ UNCHANGED <<rvars, ks, mem, thr>>

FileInputs ==
    LET sent == {m \in wire : m.kind = "FileChunk"}
        signed == sent \cup {Resigned(m, sk) : m \in sent, sk \in AttackerKeys}
    IN  signed \cup {[m EXCEPT !.is_dummy = ~@] : m \in signed}
               \cup {[m EXCEPT !.is_hash = ~@] : m \in signed}

FileStep ==
    \/ \E enable_cover \in BOOLEAN :
          send_file_start(Sending, enable_cover) /\ FileWithin
    \/ \E f \in FileIds :
          send_file_cover(hyb[Receiving].pq_pk, f) /\ FileWithin
    \/ \E f \in FileIds, p \in Plaintexts :
          send_file_chunk(Sending, hyb[Receiving].pq_pk, f, p) /\ FileWithin
    \/ \E f \in FileIds :
          send_file_hash(Sending, hyb[Receiving].pq_pk, f) /\ FileWithin
    \/ \E e \in FileIds \cup {8} : receive_file_start(e) /\ FileWithin
    \/ \E c \in FileInputs, id \in {Sending} :
          receive_file_chunk(Receiving, c, id) /\ FileWithin
    \/ receive_file_eof(Receiving) /\ FileWithin
    \/ receive_file_cut(Receiving) /\ FileWithin

SpecFile == InitOf({"alice"}) /\ [][FileStep]_vars

\* the key store, with any caller
KsWithin ==
    /\ ks'.drawn <= MaxDrawnKs
    /\ UNCHANGED <<rvars, cvars, xfer, mem, thr>>

KsStep ==
    \/ \E id \in KeyIds, d \in {"d1", "d2"}, rng_ok, save_ok \in BOOLEAN :
          store_key(id, d, rng_ok, save_ok) /\ KsWithin
    \/ \E id \in KeyIds : retrieve_key(id) /\ KsWithin
    \/ \E id \in KeyIds, save_ok \in BOOLEAN :
          delete_key(id, save_ok) /\ KsWithin
    \/ list_keys /\ KsWithin
    \/ \E id \in KeyIds : has_key(id) /\ KsWithin
    \/ \E order \in IterOrders(ks.keys),
          rng_fails_at \in 0..(Cardinality(DOMAIN ks.keys) + 1),
          save_ok \in BOOLEAN :
          rotate_master_key(order, rng_fails_at, save_ok) /\ KsWithin

SpecKeyStore == InitOf({"alice"}) /\ [][KsStep]_vars

\* the allocator, with any caller
AllocWithin ==
    /\ Len(mem'.regions) <= MaxRegions
    /\ UNCHANGED <<rvars, cvars, xfer, ks, thr>>

AllocStep ==
    \/ \E m \in {MaxAllocation, 2 * PageSize, 3 * PageSize} :
          with_max_allocation(m) /\ AllocWithin
    \/ \E size \in 0..3, mlock_ok \in BOOLEAN :
          allocate_secure(size, mlock_ok) /\ AllocWithin
    \/ \E i \in 1..MaxRegions : deallocate(i) /\ AllocWithin

SpecAlloc == InitOf({"alice"}) /\ [][AllocStep]_vars

\* one session with room for forward walks: the limits new sets, with
\* stand-ins that keep MAX_SKIP_DEFAULT > MAX_CACHE_DEFAULT > 1, and draws
\* enough for two receive chains and five messages
SkipWithin ==
    /\ rng'["alice"].keys <= MaxKeysWalk
    /\ rng'["alice"].nonces <= MaxNoncesWalk
    /\ IsSome(sess'["alice"].recv_chain_key) =>
           sess'["alice"].recv_chain_key.v.n <= MaxChainWalk
    /\ UNCHANGED <<cvars, xvars>>

SkipStep ==
    \/ \E p \in Plaintexts, ad \in AssociatedData, now \in Timestamps :
          encrypt("alice", p, ad, now) /\ SkipWithin
    \/ \E m \in net, ad \in AssociatedData :
          decrypt("alice", m, ad) /\ SkipWithin
    \/ \E dh \in RemoteDhKeys : dh_ratchet("alice", dh) /\ SkipWithin
    \/ \E pq \in RemotePqKeys : pq_ratchet("alice", pq) /\ SkipWithin

InitSkip ==
    /\ sess = [s \in {"alice"} |->
                  [new EXCEPT !.max_skip = MaxSkipWalk,
                              !.max_cache = MaxCacheWalk]]
    /\ net = {}
    /\ rng = [s \in {"alice"} |-> [keys |-> 0, nonces |-> 0]]
    /\ last = Call("new", "alice", Ok, None, NoMessage, None, "")
    /\ wiped = {}
    /\ CodecInit
    /\ FileInit
    /\ KeyStoreInit
    /\ AllocInit
    /\ PinInit

SpecSkip == InitSkip /\ [][SkipStep]_vars

\* threads that share one EphemeralKeyStore, each making one call
PinStep ==
    \/ \E t \in 1..MaxThreads, id \in SenderIds,
          k \in {DilithiumPk(<<"codec", 1>>), DilithiumPk(<<"codec", 2>>)} :
          pin_lock(t, id, k)
              /\ UNCHANGED <<rvars, hyb, wire, drawn, done, xfer, ks, mem>>
    \/ \E t \in 1..MaxThreads :
          pin_get(t)
              /\ UNCHANGED <<rvars, hyb, wire, drawn, done, xfer, ks, mem>>
    \/ \E t \in 1..MaxThreads :
          pin_insert(t)
              /\ UNCHANGED <<rvars, hyb, wire, drawn, done, xfer, ks, mem>>

SpecPin == InitOf({"alice"}) /\ [][PinStep]_vars


----------------------------------------------------------------------------
(* Vocabulary of the properties *)

\* of a message encrypt returned: who sent it, and what it was made from
Sender(m) == m.ciphertext.nonce.id[1]
Plain(m) == m.ciphertext.payload.plaintext
Number(m) == m.header.message_number

\* the receiving side of a session
RecvSide(self) ==
    <<self.recv_counter, self.recv_chain_key, self.skipped_keys>>

\* where a root key comes from: the key all its kdf_rk steps started at, and
\* the first of those steps
RECURSIVE RootOrigin(_)
RootOrigin(rk) == IF rk.t = "rk" THEN RootOrigin(rk.salt) ELSE rk
RECURSIVE FirstStep(_)
FirstStep(rk) ==
    IF rk.t = "rk" /\ rk.salt.t = "rk" THEN FirstStep(rk.salt) ELSE rk

\* a was set up by initialize_sender and b by initialize_receiver, from the
\* same shared secret and with b's key pairs matching the keys a was given
SetUpAsSender(a) ==
    /\ RootOrigin(a.root_key).t = "rk0"
    /\ FirstStep(a.root_key).t = "rk"
    /\ FirstStep(a.root_key).ikm.t = "hybrid"
ValidPair(a, b) ==
    /\ SetUpAsSender(a)
    /\ b.root_key = RootOrigin(a.root_key)
    /\ b.dh_send_key = Some(PrekeyDh)
    /\ b.pq_send_key = Some(PrekeyPq)
    /\ PrekeyDh.id \in FirstStep(a.root_key).ikm.dh.k
    /\ FirstStep(a.root_key).ikm.pq.to = PrekeyPq.id

\* m reaches self in order: self has accepted every earlier message of the
\* same sending chain
InOrder(self, m) ==
    \A x \in net :
        (x.mac.key = m.mac.key /\ Number(x) < Number(m))
            => Number(x) <= self.recv_counter

\* the call just made (in the step's second state) and the session before it
IsCall(op) == last'.op = op
Callee == sess[last'.who]
CalleeAfter == sess'[last'.who]

----------------------------------------------------------------------------
\* the deliveries C1 speaks of
C1_Case ==
    /\ IsCall("decrypt")
    /\ last'.message \in net
    /\ Sender(last'.message) # last'.who
    /\ ValidPair(sess[Sender(last'.message)], Callee)
    /\ InOrder(Callee, last'.message)

(* C1: round trip.  A message of the sender of a valid pair, delivered to   *)
(* the receiver in order and unmodified, decrypts to the plaintext it was   *)
(* encrypted from.                                                          *)
C1_RoundTrip ==
    [][C1_Case => /\ last'.err = Ok
                  /\ last'.out = Some(Plain(last'.message))]_vars

(* C2, as stated: every message whose number is at most recv_counter is    *)
(* refused as a replay, and the receiving side is left as it was.  Stated   *)
(* here of the unmodified messages alone.                                   *)
C2_Original ==
    [][(/\ IsCall("decrypt")
        /\ last'.message \in net
        /\ Number(last'.message) <= Callee.recv_counter)
        => /\ last'.err = ReplayDetected
           /\ RecvSide(CalleeAfter) = RecvSide(Callee)]_vars

(* C2, amended: every message that passes the MAC check and whose number   *)
(* is at most recv_counter is refused as a replay, and the receiving side   *)
(* is left as it was.                                                       *)
C2_Replay ==
    [][(/\ IsCall("decrypt")
        /\ mac_verifies(Callee, last'.message)
        /\ Number(last'.message) <= Callee.recv_counter)
        => /\ last'.err = ReplayDetected
           /\ RecvSide(CalleeAfter) = RecvSide(Callee)]_vars

\* C2 happens: an unmodified message is refused as a replay
C2_Witness ==
    /\ last.op = "decrypt"
    /\ last.err = ReplayDetected
    /\ last.message \in net
    /\ Number(last.message) <= sess[last.who].recv_counter

\* the deliveries C3 speaks of: 1, then 3, then 2
C3_Case ==
    /\ IsCall("decrypt")
    /\ last'.message \in net
    /\ Sender(last'.message) # last'.who
    /\ ValidPair(sess[Sender(last'.message)], Callee)
    /\ \/ Number(last'.message) = 1 /\ Callee.recv_counter = 0
       \/ Number(last'.message) = 3 /\ Callee.recv_counter = 1
       \/ Number(last'.message) = 2 /\ Callee.recv_counter = 3

(* C3: out-of-order delivery.  The messages 1, 2, 3 of the sender of a     *)
(* valid pair, delivered in the order 1, 3, 2, all decrypt to their         *)
(* plaintext; decrypting 3 caches the key of 2, decrypting 2 consumes it.   *)
C3_OutOfOrder ==
    [][C3_Case =>
        /\ last'.err = Ok
        /\ last'.out = Some(Plain(last'.message))
        /\ Number(last'.message) = 3
              => MapHas(CalleeAfter.skipped_keys, MessageId(2))
        /\ Number(last'.message) = 2
              => /\ MapHas(Callee.skipped_keys, MessageId(2))
                 /\ ~MapHas(CalleeAfter.skipped_keys, MessageId(2))]_vars

(* C4: first message.  The first message of a sender is numbered 0, and a  *)
(* receiver with recv_counter = 0 that is handed it with a valid MAC        *)
(* decrypts it.                                                             *)
C4_FirstMessage ==
    [][/\ (IsCall("encrypt") /\ last'.err = Ok /\ Callee.send_counter = 0)
            => Number(last'.out.v) = 0
       /\ (/\ IsCall("decrypt")
           /\ last'.message \in net
           /\ Number(last'.message) = 0
           /\ Callee.recv_counter = 0
           /\ mac_verifies(Callee, last'.message))
            => last'.err = Ok]_vars

(* C5: no partial mutation.  A decrypt that fails in the AEAD decryption   *)
(* leaves the receive chain key, recv_counter and the skipped-key cache as  *)
(* they were.                                                               *)
C5_NoPartialMutation ==
    [][(IsCall("decrypt") /\ last'.err = DecryptionFailed)
        => RecvSide(CalleeAfter) = RecvSide(Callee)]_vars

C7_TamperDetected ==
    [][(IsCall("decrypt") /\ last'.message \notin net)
        => /\ last'.err = AuthenticationFailed
           /\ last'.out = None
           /\ CalleeAfter = Callee]_vars

(* C8: a compromised session is unusable.  Once mark_compromised has been  *)
(* called on a session, every encrypt and every decrypt on it fails.        *)
C8_CompromisedUnusable ==
    (last.op \in {"encrypt", "decrypt"} /\ last.who \in wiped)
        => last.err # Ok

(* C9: lifecycle.  The state of a session moves only along                 *)
(* Uninitialized -> Initialized -> {KeyExchanged, Active} -> Compromised,   *)
(* to Compromised from anywhere, and never out of Compromised.              *)
C9_Lifecycle ==
    [][\A s \in Sessions :
           LET a == sess[s].state
               b == sess'[s].state
           IN  \/ a = b
               \/ a # "Compromised" /\ b = "Compromised"
               \/ a = "Uninitialized" /\ b = "Initialized"
               \/ a = "Initialized" /\ b \in {"KeyExchanged", "Active"}
               \/ a \in {"KeyExchanged", "Active"}
                     /\ b \in {"KeyExchanged", "Active"}]_vars

(* C10: a session that holds a chain key and is not Compromised is Active  *)
(* or KeyExchanged.                                                         *)
C10_UsableWithChainKey ==
    \A s \in Sessions :
        (/\ sess[s].state # "Compromised"
         /\ IsSome(sess[s].send_chain_key) \/ IsSome(sess[s].recv_chain_key))
            => is_active(sess[s])

(* C11: initialisation happens once.  A new session is Uninitialized;      *)
(* initialize_sender and initialize_receiver succeed exactly on an          *)
(* Uninitialized session, which they leave Initialized, and in any other    *)
(* state fail with AlreadyInitialized and change no field of the session.   *)
C11_InitialisedOnce ==
    /\ \A s \in Sessions : sess[s].state = "Uninitialized"
    /\ [][(IsCall("initialize_sender") \/ IsCall("initialize_receiver"))
            => IF Callee.state = "Uninitialized"
               THEN /\ last'.err = Ok
                    /\ CalleeAfter.state = "Initialized"
               ELSE /\ last'.err = AlreadyInitialized
                    /\ CalleeAfter = Callee]_vars

\* C11 happens: a second initialisation of a session is refused
C11_Witness ==
    /\ last.op \in {"initialize_sender", "initialize_receiver"}
    /\ last.err = AlreadyInitialized
    /\ sess[last.who].state = "Initialized"
    /\ sess[last.who].root_key # ZeroKey

(* C12: not-ready sessions refuse work.  encrypt and decrypt on a session  *)
(* whose state is Uninitialized or Initialized fail with RatchetNotReady    *)
(* and leave every field of the session as it was.                          *)
C12_NotReadyRefuses ==
    [][((IsCall("encrypt") \/ IsCall("decrypt"))
        /\ Callee.state \in {"Uninitialized", "Initialized"})
        => /\ last'.err = RatchetNotReady
           /\ CalleeAfter = Callee]_vars

(* C13: mark_compromised wipes the session.  Called in any state, it       *)
(* leaves the root key all zero, both chain keys absent, the skipped-key    *)
(* cache empty and the state Compromised.                                   *)
C13_Wiped ==
    [][IsCall("mark_compromised")
        => /\ CalleeAfter.root_key = ZeroKey
           /\ CalleeAfter.send_chain_key = None
           /\ CalleeAfter.recv_chain_key = None
           /\ CalleeAfter.skipped_keys = {}
           /\ CalleeAfter.state = "Compromised"]_vars

\* C13 happens: a session that was keyed and has sent messages is wiped
C13_Witness ==
    /\ last.op = "mark_compromised"
    /\ IsSome(sess[last.who].dh_send_key)
    /\ IsSome(sess[last.who].pq_send_key)
    /\ \E m \in net : Sender(m) = last.who
    /\ sess[last.who].root_key = ZeroKey

(* C14: the root key changes only on a ratchet step.  Every encrypt and    *)
(* every decrypt, failing or not, leaves the root key of every session as   *)
(* it was; a step that changes a root key is an initialisation, a           *)
(* dh_ratchet, a pq_ratchet or a mark_compromised of that session.          *)
C14_RootKeyFrame ==
    [][/\ (IsCall("encrypt") \/ IsCall("decrypt"))
            => \A s \in Sessions : sess'[s].root_key = sess[s].root_key
       /\ \A s \in Sessions :
            sess'[s].root_key # sess[s].root_key
                => /\ last'.who = s
                   /\ last'.op \in {"initialize_sender", "initialize_receiver",
                                    "dh_ratchet", "pq_ratchet",
                                    "mark_compromised"}]_vars

\* C14 happens: a decrypt has advanced the receive chain of a keyed session
\* and cached a skipped key, and an encrypt has advanced its send chain
C14_Witness ==
    /\ last.op = "decrypt"
    /\ sess[last.who].root_key # ZeroKey
    /\ sess[last.who].skipped_keys # {}
    /\ IsSome(sess[last.who].recv_chain_key)
    /\ sess[last.who].recv_chain_key.v.n > 0
    /\ sess[last.who].send_counter > 0

(* C15: one chain per call.  A successful encrypt advances the send chain  *)
(* key by exactly one kdf_ck step, raises send_counter by exactly one and   *)
(* leaves the receive chain key, recv_counter and the skipped-key cache as  *)
(* they were; a decrypt leaves the send chain key and send_counter as they  *)
(* were; so no encrypt or decrypt call advances both chains.                *)
C15_OneChainPerCall ==
    [][/\ (IsCall("encrypt") /\ last'.err = Ok)
            => /\ CalleeAfter.send_chain_key =
                      Some([Callee.send_chain_key.v EXCEPT !.n = @ + 1])
               /\ CalleeAfter.send_counter = Callee.send_counter + 1
               /\ RecvSide(CalleeAfter) = RecvSide(Callee)
       /\ IsCall("decrypt")
            => /\ CalleeAfter.send_chain_key = Callee.send_chain_key
               /\ CalleeAfter.send_counter = Callee.send_counter
       /\ (IsCall("encrypt") \/ IsCall("decrypt"))
            => \/ CalleeAfter.send_chain_key = Callee.send_chain_key
               \/ CalleeAfter.recv_chain_key = Callee.recv_chain_key]_vars

\* C15 happens: an encrypt succeeds on a session that holds a receive chain
\* key, already advanced by a decrypt, and a cached key
C15_Witness ==
    /\ last.op = "encrypt"
    /\ last.err = Ok
    /\ IsSome(sess[last.who].recv_chain_key)
    /\ sess[last.who].recv_chain_key.v.n > 0
    /\ sess[last.who].skipped_keys # {}

----------------------------------------------------------------------------
(* C16: a message key is used once.  No two envelopes a session produced   *)
(* are sealed under the same AEAD key, on any encrypt path: the ratchet's   *)
(* encrypt, SecureMsg::encrypt, encrypt_audio_packet, encrypt_chunk.        *)
C16_KeyOnce ==
    /\ \A a, b \in net :
          (a # b /\ Sender(a) = Sender(b))
              => a.ciphertext.key # b.ciphertext.key
    /\ \A a, b \in wire : a # b => Body(a).key # Body(b).key

----------------------------------------------------------------------------
\* what the stored fields of a session give: the chain keys it holds, and
\* the first key of a chain that kdf_rk started from a root key known
\* without the session (the all-zero key of new and mark_compromised) and
\* the DH output of the two DH keys the session stores
StoredChainKeys(self) ==
    {ck.v : ck \in {c \in {self.send_chain_key, self.recv_chain_key} :
                        IsSome(c)}}
RecomputableChainKeys(self) ==
    StoredChainKeys(self) \cup
    (IF IsSome(self.dh_send_key) /\ IsSome(self.dh_recv_key)
     THEN {kdf_rk(ZeroKey, diffie_hellman(self.dh_send_key.v,
                                          self.dh_recv_key.v)).chain}
     ELSE {})

\* a message key follows from the stored fields: it is cached, or a chain
\* key of its chain at or before its step does
CanRecompute(self, mk) ==
    \/ \E e \in self.skipped_keys : e.key = mk
    \/ \E ck \in RecomputableChainKeys(self) :
          ck.salt = mk.salt /\ ck.ikm = mk.ikm /\ ck.n <= mk.n

\* the message keys a stored chain key has left behind
KeysBehind(self) ==
    {[t |-> "mk", salt |-> ck.salt, ikm |-> ck.ikm, n |-> n] :
        <<ck, n>> \in {x \in StoredChainKeys(self) \X (0 .. MaxNonces + MaxChain) :
                          x[2] < x[1].n}}

(* C17: forward secrecy within a chain, at the level of the stored state.  *)
(* After an encrypt or decrypt has derived the message key for number N,    *)
(* the session holds the successor chain key only, and no message key the   *)
(* chain has left behind, other than the cached ones, can be recomputed     *)
(* from the stored fields.                                                  *)
C17_ForwardSecrecy ==
    [][(IsCall("encrypt") \/ IsCall("decrypt"))
        => \A mk \in KeysBehind(CalleeAfter) :
              \/ \E e \in CalleeAfter.skipped_keys : e.key = mk
              \/ ~CanRecompute(CalleeAfter, mk)]_vars

----------------------------------------------------------------------------
(* C18: trust on first use.  verify_and_pin_ephemeral_key(store, S, K)     *)
(* inserts K and succeeds when the store has no entry for S; with K' pinned *)
(* for S it succeeds when K = K' and fails with the key-mismatch error      *)
(* otherwise, the store unchanged; and whatever is called, an entry of the  *)
(* store stays as it is.                                                    *)
C18_TrustOnFirstUse ==
    [][/\ \A S \in DOMAIN pinned :
              S \in DOMAIN pinned' /\ pinned'[S] = pinned[S]
       /\ done'.op = "verify_and_pin_ephemeral_key"
            => LET S == done'.sender_id
                   K == done'.out.v
               IN  IF S \notin DOMAIN pinned
                   THEN /\ done'.err = Ok
                        /\ pinned' = pinned @@ (S :> K)
                   ELSE /\ pinned' = pinned
                        /\ done'.err = IF pinned[S] = K THEN Ok
                                       ELSE EphemeralKeyMismatch]_vars

\* C18 happens: a key other than the pinned one is refused
C18_Witness ==
    /\ done.op = "verify_and_pin_ephemeral_key"
    /\ done.err = EphemeralKeyMismatch
    /\ done.sender_id \in DOMAIN pinned
    /\ pinned[done.sender_id] # done.out.v
    /\ DOMAIN pinned = SenderIds

----------------------------------------------------------------------------
(* C19: ephemeral pinning in the codec.  When SecureMsg::decrypt processes  *)
(* two envelopes in a row for the same sender_id whose ephemeral public     *)
(* keys differ, the first one, an envelope as SecureMsg::encrypt returned   *)
(* it that passed the ratchet and the AEAD with no other key pinned for the *)
(* sender, pins its key, and the second one fails with the key-mismatch     *)
(* error, which is none of the decryption and signature errors.             *)
C19_PinningInDecrypt ==
    [][(/\ done.op = "SecureMsg::decrypt"
        /\ done'.op = "SecureMsg::decrypt"
        /\ done'.sender_id = done.sender_id
        /\ done'.msg.ephemeral_pk # done.msg.ephemeral_pk
        /\ done.msg \in wire
        /\ done.err \notin {DrRecvFailed, TextDecryptFailed}
        /\ done.sender_id \in DOMAIN pinned
              => pinned[done.sender_id] = done.msg.ephemeral_pk)
       => /\ done.sender_id \in DOMAIN pinned
          /\ pinned[done.sender_id] = done.msg.ephemeral_pk
          /\ done'.err = EphemeralKeyMismatch
          /\ EphemeralKeyMismatch \notin
                 {DrRecvFailed, TextDecryptFailed, AudioDecryptFailed,
                  SignatureInvalid}]_vars

----------------------------------------------------------------------------
(* C20: the attached signature verifies.  Every envelope SecureMsg::encrypt *)
(* returned, and every packet and chunk encrypt_audio_packet and            *)
(* encrypt_chunk returned, carries as ephemeral_pk the public half of the   *)
(* key pair whose secret half made ephemeral_sig over the ciphertext, so    *)
(* the signature check of the matching decrypt passes on it.                *)
C20_SignatureVerifies ==
    \A m \in wire : verify(Body(m), m.ephemeral_sig, m.ephemeral_pk)

----------------------------------------------------------------------------
----------------------------------------------------------------------------
(* C22: cover traffic shares the session.  After any interleaving of the    *)
(* cover task with the send path of send_file, the session's send counter   *)
(* has counted every chunk sent, real or dummy, and no two chunks carry the *)
(* same sequence number.                                                    *)
C22_CoverSharesSession ==
    LET sent == {m \in wire : m.kind = "FileChunk"}
    IN  /\ hyb[Sending].send_ctr = Cardinality(sent) % CtrWrap
        /\ \A a, b \in sent : a # b => a.seq_number # b.seq_number

----------------------------------------------------------------------------
(* C23: key store round trip.  retrieve_key(id) returns Ok(None) for an id  *)
(* that is not stored and, for an id that store_key put d under, Some(d),   *)
(* also with successful rotate_master_key calls in between.                 *)
C23_KeyStoreRoundTrip ==
    [][ks'.last.op = "retrieve_key"
        => LET id == ks'.last.key_id
           IN  IF id \notin DOMAIN ks.plain
               THEN ks'.last.err = Ok /\ ks'.last.out = None
               ELSE ~ks.rot_err
                       => /\ ks'.last.err = Ok
                          /\ ks'.last.out = Some(ks.plain[id])]_vars

\* C23 happens: a key came back after the master key was rotated over it
C23_Witness ==
    /\ ks.last.op = "retrieve_key"
    /\ ks.last.key_id \in DOMAIN ks.plain
    /\ ks.last.out = Some(ks.plain[ks.last.key_id])
    /\ ~ks.rot_err
    /\ ks.master_key # <<"keystore", 0>>
    /\ ks.keys[ks.last.key_id].encrypted_data.key = ks.master_key

----------------------------------------------------------------------------
(* C24: master-key rotation is atomic.  Whenever rotate_master_key has      *)
(* returned, with success or with an error, every entry of the store        *)
(* decrypts under the store's current master key to the plaintext it had    *)
(* before the call.                                                         *)
C24_RotationAtomic ==
    [][ks'.last.op = "rotate_master_key"
        => /\ DOMAIN ks'.keys = DOMAIN ks.keys
           /\ \A id \in DOMAIN ks.keys :
                 /\ decrypt_entry(ks'.master_key, ks'.keys[id])
                       = decrypt_entry(ks.master_key, ks.keys[id])
                 /\ decrypt_entry(ks'.master_key, ks'.keys[id])
                       = Some(ks.plain[id])]_vars

----------------------------------------------------------------------------
(* C25: key store membership.  delete_key(id) returns true exactly when id  *)
(* was present before the call and false otherwise; after it has_key(id) is *)
(* false and retrieve_key(id) returns None; list_keys returns exactly the   *)
(* ids stored and not deleted since.                                        *)

\* as stated: delete_key returns a truth value, and the ids stored are those
\* store_key succeeded for
C25_Original ==
    [][/\ ks'.last.op = "delete_key"
            => /\ ks'.last.err = Ok
               /\ ks'.last.out = Some(ks'.last.key_id \in DOMAIN ks.keys)
       /\ ks'.last.op = "list_keys" => ks'.last.out = Some(ks.stored)]_vars

\* as the code has it: delete_key returns Ok(true) for a present id unless
\* writing the file failed, and Ok(false) for an absent one; either way the
\* id is gone afterwards; has_key, retrieve_key and list_keys go by the ids
\* store_key has put into the map, which it does before it writes the file
C25_Membership ==
    [][/\ ks'.last.op = "delete_key"
            => LET id == ks'.last.key_id
               IN  /\ ks'.last.err = Ok
                        => ks'.last.out = Some(id \in DOMAIN ks.plain)
                   /\ id \notin DOMAIN ks.plain => ks'.last.err = Ok
                   /\ id \notin DOMAIN ks'.keys
                   /\ DOMAIN ks'.keys = DOMAIN ks.keys \ {id}
       /\ ks'.last.op = "has_key"
            => ks'.last.out = Some(ks'.last.key_id \in DOMAIN ks.plain)
       /\ (ks'.last.op = "retrieve_key"
             /\ ks'.last.key_id \notin DOMAIN ks.plain)
            => ks'.last.err = Ok /\ ks'.last.out = None
       /\ ks'.last.op = "list_keys" => ks'.last.out = Some(DOMAIN ks.plain)
      ]_vars

\* C25 happens: list_keys after two ids were stored and one of them deleted
C25_Witness ==
    /\ ks.last.op = "list_keys"
    /\ ks.last.out = Some({"k2"})
    /\ ks.drawn >= 2
    /\ ks.stored = {"k2"}

----------------------------------------------------------------------------
(* C26: file integrity.  receive_file returns success only if the hash      *)
(* chunk was received and its content equals the hash of the data chunks    *)
(* written to the output file.                                              *)
C26_FileIntegrity ==
    (xfer.result = Some(Ok)) => xfer.verified

----------------------------------------------------------------------------
(* C27: allocation limit.  An allocator with max_allocation M grants an     *)
(* allocate_secure(size) request whenever the requested sizes of the live   *)
(* regions plus size do not exceed M, and rejects one that would take the   *)
(* sum above M; with M = 1024, two requests of 512 bytes both succeed.      *)
C27_AllocationLimit ==
    [][(/\ mem'.last.op = "allocate_secure"
        /\ mem'.last.err \in {Ok, "Allocation would exceed maximum limit"})
       => LET live == Total([i \in DOMAIN mem.regions |->
                                mem.regions[i].actual_size],
                            DOMAIN mem.regions)
          IN  mem'.last.err = Ok
                 <=> live + mem'.last.size <= mem.max_allocation]_vars

----------------------------------------------------------------------------
(* C28: a DH ratchet step is triggered by the header.  Whenever decrypt     *)
(* processes an envelope that passes the MAC check and whose header carries *)
(* a DH public key other than the stored dh_recv_key, afterwards            *)
(* dh_recv_key is the header's key and the root key has been replaced.      *)
C28_HeaderTriggersRatchet ==
    [][(/\ IsCall("decrypt")
        /\ mac_verifies(Callee, last'.message)
        /\ IsSome(last'.message.header.dh_public_key)
        /\ last'.message.header.dh_public_key # Callee.dh_recv_key)
       => /\ CalleeAfter.dh_recv_key = last'.message.header.dh_public_key
          /\ CalleeAfter.root_key # Callee.root_key]_vars

----------------------------------------------------------------------------
(* C29: the header carries a DH public key only on ratchet-step messages.   *)
(* encrypt sets header.dh_public_key to the session's DH public key on the  *)
(* first message of a sending chain and to None on every other message of   *)
(* the chain.                                                               *)
C29_KeyOnlyOnRatchetStep ==
    [][(IsCall("encrypt") /\ last'.err = Ok)
       => last'.out.v.header.dh_public_key
             = IF Callee.send_counter = 0 /\ IsSome(Callee.dh_send_key)
               THEN Some(PublicKey(Callee.dh_send_key.v))
               ELSE None]_vars

----------------------------------------------------------------------------
(* C30: dh_ratchet post-state.  Every dh_ratchet(peer_key) replaces the     *)
(* root key and the send chain key with the two outputs of kdf_rk(old root  *)
(* key, DH(new local key, peer_key)), stores the new local key pair and     *)
(* peer_key, sets send_counter to 0 and the state to Active, and leaves the *)
(* receive chain key, recv_counter and the skipped-key cache unchanged.     *)
C30_DhRatchetPostState ==
    [][IsCall("dh_ratchet")
       => /\ last'.err = Ok
          /\ IsSome(CalleeAfter.dh_send_key)
          /\ IsSome(CalleeAfter.dh_recv_key)
          /\ CalleeAfter.dh_send_key # Callee.dh_send_key
          /\ LET out == kdf_rk(Callee.root_key,
                               diffie_hellman(CalleeAfter.dh_send_key.v,
                                              CalleeAfter.dh_recv_key.v))
             IN  /\ CalleeAfter.root_key = out.root
                 /\ CalleeAfter.send_chain_key = Some(out.chain)
          /\ CalleeAfter.dh_recv_key \in {Some(k) : k \in RemoteDhKeys}
          /\ CalleeAfter.send_counter = 0
          /\ CalleeAfter.state = "Active"
          /\ CalleeAfter.recv_chain_key = Callee.recv_chain_key
          /\ CalleeAfter.recv_counter = Callee.recv_counter
          /\ CalleeAfter.skipped_keys = Callee.skipped_keys]_vars

\* C30 happens: a ratchet step on a session that had sent two messages on
\* the chain before
C30_Witness ==
    /\ last.op = "dh_ratchet"
    /\ \E s \in Sessions :
          /\ last.who = s
          /\ sess[s].send_counter = 0
          /\ sess[s].state = "Active"
          /\ \E m \in net : m.header.message_number > 0

----------------------------------------------------------------------------
(* The forward walk of the receive chain *)

\* the chain key k kdf_ck steps after chain_key, and the message key the
\* step after those yields
RECURSIVE ChainAfter(_, _)
ChainAfter(chain_key, k) ==
    IF k = 0 THEN chain_key ELSE ChainAfter(kdf_ck(chain_key).chain, k - 1)

KeyAfter(chain_key, k) == kdf_ck(ChainAfter(chain_key, k)).message

\* decrypt is about to ask get_recv_message_key for the number of message m
AsksChain(self, m) ==
    /\ mac_verifies(self, m)
    /\ ~is_replay(self, m)
    /\ ~MapHas(self.skipped_keys, MessageId(m.header.message_number))

\* C31: asked for message number n with 1 <= n - (c+1) <= max_skip, where
\* c is recv_counter, get_recv_message_key returns the key that the n-c-th
\* kdf_ck step from the receive chain key yields and leaves the chain key
\* n-c steps on; the cache then holds, under each number of c+1 .. n-1 it
\* has an entry for, the key of that step, it holds the key of n-1, and it
\* holds all of them when they fit beside the entries it held before.
C31_ForwardWalk ==
    [][\A m \in net :
        LET self == sess["alice"]
            n == m.header.message_number
            c == self.recv_counter
            ck == self.recv_chain_key.v
        IN  (/\ last'.op = "decrypt"
             /\ last'.message = m
             /\ AsksChain(self, m)
             /\ IsSome(self.recv_chain_key)
             /\ n - (c + 1) >= 1
             /\ n - (c + 1) <= self.max_skip)
            => /\ \E o \in get_recv_message_key(self, n) :
                      sess'["alice"] = o.self
               /\ \A o \in get_recv_message_key(self, n) :
                    /\ o.err = Ok
                    /\ o.key = Some(KeyAfter(ck, n - c - 1))
                    /\ o.self.recv_chain_key = Some(ChainAfter(ck, n - c))
                    /\ \A e \in o.self.skipped_keys :
                           e.id.message_number \in (c + 1)..(n - 1)
                               => /\ e.id = MessageId(e.id.message_number)
                                  /\ e.key = KeyAfter(ck,
                                         e.id.message_number - c - 1)
                    /\ MapHas(o.self.skipped_keys, MessageId(n - 1))
                    /\ Cardinality(self.skipped_keys) + (n - c - 1)
                           <= self.max_cache
                       => \A i \in (c + 1)..(n - 1) :
                              MapHas(o.self.skipped_keys, MessageId(i))
                    /\ \A e \in o.self.skipped_keys :
                           e.id.message_number \notin (c + 1)..(n - 1)
                               => e \in self.skipped_keys]_vars

\* a walk over two skipped numbers has been taken: message 3 was asked of a
\* fresh chain, the keys of 1 and 2 are in the cache and the chain key is
\* three steps on
C31_Witness ==
    /\ last.op = "decrypt"
    /\ last.message # NoMessage
    /\ last.message.header.message_number = 3
    /\ IsSome(sess["alice"].recv_chain_key)
    /\ sess["alice"].recv_chain_key.v.n = 3
    /\ sess["alice"].recv_counter = 0
    /\ MapHas(sess["alice"].skipped_keys, MessageId(1))
    /\ MapHas(sess["alice"].skipped_keys, MessageId(2))

----------------------------------------------------------------------------
(* The size of the skipped-key cache *)

\* C32: after every call the skipped-key cache holds at most max_cache
\* entries, and so it does after each round of the loop of a forward walk,
\* also of a walk over more than max_cache numbers.
C32_CacheBounded ==
    [][/\ Cardinality(sess'["alice"].skipped_keys)
              <= sess'["alice"].max_cache
       /\ \A m \in net :
           LET self == sess["alice"]
               n == m.header.message_number
           IN  (/\ last'.op = "decrypt"
                /\ last'.message = m
                /\ AsksChain(self, m)
                /\ IsSome(self.recv_chain_key)
                /\ ~too_many_skipped(self, n))
               => \A rounds \in 0..skip_count(self, n) :
                      \A w \in SkipWalk(self, self.skipped_keys,
                                        self.recv_chain_key.v, 0, rounds) :
                          Cardinality(w.cache) <= self.max_cache]_vars

\* a walk over three numbers, more than max_cache, has been taken and the
\* cache is full
C32_Witness ==
    /\ last.op = "decrypt"
    /\ last.message # NoMessage
    /\ last.message.header.message_number = 4
    /\ IsSome(sess["alice"].recv_chain_key)
    /\ sess["alice"].recv_chain_key.v.n = 4
    /\ sess["alice"].recv_counter = 0
    /\ 3 > sess["alice"].max_cache
    /\ Cardinality(sess["alice"].skipped_keys) = sess["alice"].max_cache

----------------------------------------------------------------------------
(* Which entry a full cache loses *)

\* C33: entries leave the skipped-key cache in the order they were
\* inserted.  A forward walk inserts the keys of c+1 .. n-1 in that order,
\* after every entry the cache held before: so a key of the walk that is
\* still cached has every later key of the walk beside it, and an earlier
\* entry is still cached only when every key of the walk is.
C33_FifoEviction ==
    [][\A m \in net :
        LET self == sess["alice"]
            n == m.header.message_number
            walked == (self.recv_counter + 1)..(n - 1)
            after == sess'["alice"].skipped_keys
        IN  (/\ last'.op = "decrypt"
             /\ last'.message = m
             /\ AsksChain(self, m)
             /\ IsSome(self.recv_chain_key)
             /\ ~too_many_skipped(self, n))
            => /\ \A i \in walked, j \in walked :
                      (i < j /\ MapHas(after, MessageId(i)))
                          => MapHas(after, MessageId(j))
               /\ (\E e \in after :
                      e \in self.skipped_keys
                          /\ e.id.message_number \notin walked)
                  => \A i \in walked : MapHas(after, MessageId(i))]_vars

----------------------------------------------------------------------------
(* The PQ rekey schedule *)

\* C34: SecureMsg::encrypt and encrypt_chunk raise send_ctr by one, wrapping;
\* when the raised send_ctr is a multiple of PQ_REKEY_PERIOD the envelope
\* carries a PQ ciphertext no earlier envelope carried and the session's PQ
\* shared secret becomes the one it encapsulates; otherwise the envelope
\* carries none and the PQ shared secret is unchanged.
C34_RekeySchedule ==
    [][(done'.op \in {"SecureMsg::encrypt", "encrypt_chunk"}
            /\ done'.err = Ok)
       => LET s == done'.who
              envelope == done'.out.v
          IN  /\ hyb'[s].send_ctr = (hyb[s].send_ctr + 1) % CtrWrap
              /\ IF hyb'[s].send_ctr % PQ_REKEY_PERIOD = 0
                 THEN /\ IsSome(envelope.pq_ct)
                      /\ \A m \in wire :
                             (m.kind \in {"SecureMsg", "FileChunk"})
                                 => m.pq_ct # envelope.pq_ct
                      /\ hyb'[s].pq_shared # hyb[s].pq_shared
                      /\ envelope.pq_ct.v = PqCiphertext(hyb'[s].pq_shared)
                 ELSE /\ envelope.pq_ct = None
                      /\ hyb'[s].pq_shared = hyb[s].pq_shared]_vars

\* a chunk and a message have been sent by the same session, the second with
\* the counter wrapped to 0 and a PQ ciphertext of its own
C34_Witness ==
    /\ done.op \in {"SecureMsg::encrypt", "encrypt_chunk"}
    /\ hyb[done.who].send_ctr = 0
    /\ IsSome(done.out.v.pq_ct)
    /\ \E a \in wire, b \in wire :
           /\ a.kind = "SecureMsg" /\ b.kind = "FileChunk"
           /\ IsSome(a.pq_ct) /\ IsSome(b.pq_ct) /\ a.pq_ct # b.pq_ct

----------------------------------------------------------------------------
(* Failed decryption and the session *)

\* C35: when SecureMsg::decrypt fails at the AEAD decryption, the signature
\* check or the pinning registry, the HybridRatchet is as it was before the
\* call: the PQ shared secret and the double ratchet are unchanged.
C35_FailureLeavesSession ==
    [][(/\ done'.op = "SecureMsg::decrypt"
        /\ done'.err \in {TextDecryptFailed, SignatureInvalid,
                          EphemeralKeyMismatch})
       => hyb'[done'.who] = hyb[done'.who]]_vars

----------------------------------------------------------------------------
(* Concurrent pinning *)

\* C36: whatever the interleaving of the threads, a pinned key is never
\* replaced, a call that has returned succeeded exactly when its key is the
\* one pinned for its sender id, and a step of a call leaves the entries of
\* every other sender id as they were.
C36_RaceFree ==
    [][/\ \A id \in DOMAIN pinned :
              id \in DOMAIN pinned' /\ pinned'[id] = pinned[id]
       /\ \A t \in 1..MaxThreads :
              LET me == thr'.of[t]
              IN  /\ me.pc = "returned"
                     => /\ me.sender_id \in DOMAIN pinned'
                        /\ me.result \in {Some(Ok), Some(EphemeralKeyMismatch)}
                        /\ (me.result = Some(Ok))
                               <=> (pinned'[me.sender_id] = me.ephemeral_pk.v)
                  /\ thr'.of[t] # thr.of[t]
                     => \A id \in (DOMAIN pinned \cup DOMAIN pinned')
                                      \ {me.sender_id} :
                            /\ id \in DOMAIN pinned
                            /\ id \in DOMAIN pinned'
                            /\ pinned'[id] = pinned[id]]_vars

\* three calls have returned, two of them for the same sender id with
\* different keys, of which one succeeded and one failed, and one for
\* another sender id, which succeeded
C36_Witness ==
    \E a \in 1..MaxThreads, b \in 1..MaxThreads, c \in 1..MaxThreads :
        /\ \A t \in {a, b, c} : thr.of[t].pc = "returned"
        /\ thr.of[a].sender_id = thr.of[b].sender_id
        /\ thr.of[a].ephemeral_pk # thr.of[b].ephemeral_pk
        /\ thr.of[a].result = Some(Ok)
        /\ thr.of[b].result = Some(EphemeralKeyMismatch)
        /\ thr.of[c].sender_id # thr.of[a].sender_id
        /\ thr.of[c].result = Some(Ok)

----------------------------------------------------------------------------
(* The key of a message number, at the sender and at the receiver *)

\* a message key is its chain's origin and its number of steps from there:
\* two chains that start from the same chain key yield the same key exactly
\* at the same number of steps
StepsFromStart(message_key) == message_key.n

\* C37: the key the receiver derives for message number n is as many steps
\* from the start of its receive chain as the key the sender sealed message
\* n with is from the start of its send chain, so that the two keys are
\* equal when the chains start from the same chain key.  The receive chain
\* is taken where recv_counter says it is, untouched by failed calls.
C37_KeysAgree ==
    [][\A m \in net :
        LET self == sess["alice"]
            n == m.header.message_number
        IN  (/\ last'.op = "decrypt"
             /\ last'.message = m
             /\ mac_verifies(self, m)
             /\ ~is_replay(self, m)
             /\ IsSome(self.recv_chain_key)
             /\ self.recv_chain_key.v.n = self.recv_counter
             /\ self.skipped_keys = {})
            => \A k \in message_key_for(self, n) :
                   k.err = Ok
                       => StepsFromStart(k.key.v)
                              = StepsFromStart(m.ciphertext.key)]_vars

----------------------------------------------------------------------------
(* Associated data *)

\* C38: the associated data the caller gives encrypt is authenticated by the
\* envelope: the AEAD seals the payload under associated data, not under
\* none, so that a decrypt given other associated data cannot open it.
C38_AssociatedDataBound ==
    [][(last'.op = "encrypt" /\ last'.err = Ok /\ last'.ad # NoAad)
       => last'.out.v.ciphertext.aad # NoAad]_vars

----------------------------------------------------------------------------
(* The chain a cached key belongs to *)

\* the chain a chain key or a message key was derived on: the root key and
\* the secret its kdf_rk call took
ChainOf(key) == <<key.salt, key.ikm>>

\* C39: a key decrypt takes from the skipped-key cache was derived on the
\* receive chain the session holds at that moment: once pq_ratchet has
\* installed a new receive chain, no key cached on the previous chain is
\* served.
C39_CachedKeyOfItsChain ==
    [][\A m \in net :
        LET self == sess["alice"]
            id == MessageId(m.header.message_number)
        IN  (/\ last'.op = "decrypt"
             /\ last'.message = m
             /\ mac_verifies(self, m)
             /\ ~is_replay(self, m)
             /\ IsSome(self.recv_chain_key)
             /\ MapHas(self.skipped_keys, id))
            => ChainOf(MapGet(self.skipped_keys, id))
                   = ChainOf(self.recv_chain_key.v)]_vars

----------------------------------------------------------------------------
(* The flags of a file chunk *)

\* the chunks encrypt_chunk made with the sealed bytes, or the content, of x
MadeWith(x) == {o \in wire : o.kind = "FileChunk" /\ o.ciphertext = x}
MadeOf(x) == {o \in wire : o.kind = "FileChunk" /\ o.ciphertext.payload = x}

\* C40: whatever is done to the is_dummy and is_hash fields of chunks in
\* transit, a receive_file that returns Ok has dropped as dummies only
\* chunks the sender made as dummies, and has written to the output only the
\* content of chunks the sender made as data chunks.
C40_FlagsAuthenticated ==
    (xfer.rpc = "idle" /\ xfer.result = Some(Ok))
        => /\ \A i \in 1..Len(xfer.dropped) :
                  \A o \in MadeWith(xfer.dropped[i]) : o.is_dummy
           /\ \A i \in 1..Len(xfer.file) :
                  \A o \in MadeOf(xfer.file[i]) : ~o.is_dummy /\ ~o.is_hash

====
